---- MODULE Spec2Model ----
(***************************************************************************)
(* Poll / option / vote data consistency of the alx-polly application.     *)
(*                                                                         *)
(* The store is the Postgres schema of 0001_polls_and_votes.sql (tables,   *)
(* foreign keys with cascade, the partial unique index on votes and the    *)
(* row level security policies).  The operations are the exported          *)
(* functions of the refactored lib/polls.ts; every function is cut at its  *)
(* awaits on the store, so that calls of several clients interleave at     *)
(* exactly the points where the code suspends.                             *)
(*                                                                         *)
(* Text values are sequences of one-character strings, so that trim() is   *)
(* computed and not assumed.                                               *)
(***************************************************************************)
EXTENDS Integers, Sequences, FiniteSets, Bags, TLC

\* ------------------------------------------------------------------------
\* Bounds of the model
\* ------------------------------------------------------------------------
NumProcs == 2

MaxPolls == 2

MaxVotes == 3

MaxNow == 1

MaxFaults == 1

MaxCalls == 3

\* the statements clients send to the store directly
MaxStatements == 6

\* the entries of the draft option list of the new-poll form
MaxDraft == 3

\* the actions of the user on the new-poll form
MaxFormSteps == 5

\* ------------------------------------------------------------------------
\* Program constants
\* ------------------------------------------------------------------------
QUESTION_MIN_LENGTH == 3

QUESTION_MAX_LENGTH == 500

DESCRIPTION_MAX_LENGTH == 2000

OPTIONS_MIN_COUNT == 2

OPTIONS_MAX_COUNT == 20

POLL_NOT_FOUND == "PGRST116"

UNIQUE_CONSTRAINT_VIOLATION == "23505"

\* Postgres error classes raised by the schema
FOREIGN_KEY_VIOLATION == "23503"

CHECK_VIOLATION == "23514"

RLS_VIOLATION == "42501"

\* a failure of the store that is not caused by the request (network, 5xx)
STORE_FAULT == "FAULT"

NoError == "none"

\* ------------------------------------------------------------------------
\* Values
\* ------------------------------------------------------------------------
Procs == 1..NumProcs

Users == {"u1", "u2"}

\* the session of a client without a signed-in user (role anon)
Anon == "anon"

Sessions == Users \cup {Anon}

\* voter_id null / voterId undefined
NoVoter == "null"

\* SQL null of a text column, distinct from every text
NullText == <<"NULL">>

\* SQL null of a timestamptz column
NoTime == -1

\* an id no row ever had
NoId == 0

Rep(c, n) == [i \in 1..n |-> c]

\* ------------------------------------------------------------------------
\* Text helpers
\* ------------------------------------------------------------------------
RECURSIVE TrimStart(_)
TrimStart(s) ==
  IF s = <<>> THEN <<>>
  ELSE IF Head(s) = " " THEN TrimStart(Tail(s)) ELSE s

RECURSIVE TrimEnd(_)
TrimEnd(s) ==
  IF s = <<>> THEN <<>>
  ELSE IF s[Len(s)] = " " THEN TrimEnd(SubSeq(s, 1, Len(s) - 1)) ELSE s

Trim(s) == TrimEnd(TrimStart(s))

Range(s) == {s[i] : i \in 1..Len(s)}

\* Digits of the date strings of the model
DigitValue(c) ==
  CASE c = "0" -> 0 [] c = "1" -> 1 [] c = "2" -> 2 [] c = "3" -> 3
    [] c = "4" -> 4 [] c = "5" -> 5 [] c = "6" -> 6 [] c = "7" -> 7
    [] c = "8" -> 8 [] c = "9" -> 9 [] OTHER -> -1

RECURSIVE ParseDigits(_)
ParseDigits(s) ==
  IF s = <<>> THEN 0
  ELSE LET rest == ParseDigits(SubSeq(s, 1, Len(s) - 1))
           d == DigitValue(s[Len(s)])
       IN IF rest < 0 \/ d < 0 THEN -1 ELSE 10 * rest + d

\* new Date(text).getTime(): the instant, or NaN (NoTime) when text is not a date
ParseDate(s) == IF s = <<>> THEN NoTime ELSE ParseDigits(s)

\* ------------------------------------------------------------------------
\* Results of a call
\* ------------------------------------------------------------------------
Ok(v) == [kind |-> "ok", msg |-> "", val |-> v]

Pending == [kind |-> "pending", msg |-> "", val |-> NoId]

ValidationError(m) == [kind |-> "ValidationError", msg |-> m, val |-> NoId]

UnauthorizedError(m) == [kind |-> "UnauthorizedError", msg |-> m, val |-> NoId]

NotFoundError(m) == [kind |-> "NotFoundError", msg |-> m, val |-> NoId]

\* msg is the text the code puts before the message of the store's error
PollError(m) == [kind |-> "PollError", msg |-> m, val |-> NoId]

\* ------------------------------------------------------------------------
\* validators
\* ------------------------------------------------------------------------
Valid(v) == [ok |-> TRUE, val |-> v, msg |-> ""]

Invalid(m) == [ok |-> FALSE, val |-> <<>>, msg |-> m]

ValidateQuestion(question) ==
  LET trimmed == Trim(question)
  IN IF trimmed = <<>> \/ Len(trimmed) < QUESTION_MIN_LENGTH
       THEN Invalid("Question must be at least 3 characters long")
     ELSE IF Len(trimmed) > QUESTION_MAX_LENGTH
       THEN Invalid("Question cannot exceed 500 characters")
     ELSE Valid(trimmed)

ValidateDescription(description) ==
  IF description = NullText \/ description = <<>> THEN Valid(NullText)
  ELSE LET trimmed == Trim(description)
       IN IF Len(trimmed) > DESCRIPTION_MAX_LENGTH
            THEN Invalid("Description cannot exceed 2000 characters")
          ELSE Valid(IF trimmed = <<>> THEN NullText ELSE trimmed)

ValidOptionLabels(opts) ==
  SelectSeq([i \in 1..Len(opts) |-> Trim(opts[i])], LAMBDA o : Len(o) > 0)

\* validators.options without the upper limit
ValidateOptionsNoMax(opts) ==
  LET validOptions == ValidOptionLabels(opts)
  IN IF Len(validOptions) < OPTIONS_MIN_COUNT
       THEN Invalid("At least 2 options are required")
     ELSE IF Cardinality(Range(validOptions)) # Len(validOptions)
       THEN Invalid("Duplicate options are not allowed")
     ELSE Valid(validOptions)

\* validators.options without the comparison of the labels
ValidateOptionsNoDuplicateCheck(opts) ==
  LET validOptions == ValidOptionLabels(opts)
  IN IF Len(validOptions) < OPTIONS_MIN_COUNT
       THEN Invalid("At least 2 options are required")
     ELSE IF Len(validOptions) > OPTIONS_MAX_COUNT
       THEN Invalid("Cannot have more than 20 options")
     ELSE Valid(validOptions)

ValidateOptions(opts) ==
  LET validOptions == ValidOptionLabels(opts)
  IN IF Len(validOptions) < OPTIONS_MIN_COUNT
       THEN Invalid("At least 2 options are required")
     ELSE IF Len(validOptions) > OPTIONS_MAX_COUNT
       THEN Invalid("Cannot have more than 20 options")
     ELSE IF Cardinality(Range(validOptions)) # Len(validOptions)
       THEN Invalid("Duplicate options are not allowed")
     ELSE Valid(validOptions)

\* validators.expiresAt, were a date equal to the current time accepted
ValidateExpiresAtNotStrict(expiresAt, clock) ==
  IF expiresAt = NullText \/ expiresAt = <<>> THEN [ok |-> TRUE, val |-> NoTime, msg |-> ""]
  ELSE LET expireDate == ParseDate(expiresAt)
       IN IF expireDate = NoTime
            THEN [ok |-> FALSE, val |-> NoTime, msg |-> "Invalid expiration date format"]
          ELSE IF expireDate < clock
            THEN [ok |-> FALSE, val |-> NoTime, msg |-> "Expiration date must be in the future"]
          ELSE [ok |-> TRUE, val |-> expireDate, msg |-> ""]

\* the time of the validated expiration, NoTime for none
ValidateExpiresAt(expiresAt, clock) ==
  IF expiresAt = NullText \/ expiresAt = <<>> THEN [ok |-> TRUE, val |-> NoTime, msg |-> ""]
  ELSE LET expireDate == ParseDate(expiresAt)
       IN IF expireDate = NoTime
            THEN [ok |-> FALSE, val |-> NoTime, msg |-> "Invalid expiration date format"]
          ELSE IF expireDate <= clock
            THEN [ok |-> FALSE, val |-> NoTime, msg |-> "Expiration date must be in the future"]
          ELSE [ok |-> TRUE, val |-> expireDate, msg |-> ""]

\* ------------------------------------------------------------------------
\* State
\* ------------------------------------------------------------------------
\* useState of NewPollClient: an empty title, two empty options, no
\* suggestions (null is the empty sequence, a response a sequence of one),
\* no error
NewForm ==
  [title |-> <<>>, options |-> << <<>>, <<>> >>, suggestions |-> <<>>,
   error |-> ""]

VARIABLES
  polls,        \* rows of public.polls
  options,      \* rows of public.poll_options
  votes,        \* rows of public.votes: a bag, rows that differ only in id are counted
  now,          \* the clock (new Date() of the clients, now() of the store)
  faults,       \* how many more store calls may fail for external reasons
  maxInFlight,  \* how many calls may be in progress at once
  calls,        \* how many calls were made
  pc,           \* per client: the await its call is suspended at
  call,         \* per client: arguments and locals of its call in progress
  last,         \* what the call that returned in the latest step returned
  form          \* the state of the new-poll form (NewPollClient)

vars == <<polls, options, votes, now, faults, maxInFlight, calls, pc, call, last, form>>

\* ------------------------------------------------------------------------
\* Schema: rows, identifiers, constraints, row level security
\* ------------------------------------------------------------------------
PollRow(id, question, description, createdBy, createdAt, expiresAt) ==
  [id |-> id, question |-> question, description |-> description,
   created_by |-> createdBy, created_at |-> createdAt, expires_at |-> expiresAt]

OptionRow(id, pollId, label, position) ==
  [id |-> id, poll_id |-> pollId, label |-> label, position |-> position]

VoteRow(pollId, optionId, voterId) ==
  [poll_id |-> pollId, option_id |-> optionId, voter_id |-> voterId]

VoteRows == DOMAIN votes

\* the rows of votes that satisfy keep
VotesWhere(keep(_)) == [v \in {x \in VoteRows : keep(x)} |-> votes[v]]

\* gen_random_uuid(): a value no row and no client holds; the n smallest such
\* numbers stand for n new uuids
RECURSIVE FreshIds(_, _, _)
FreshIds(used, n, from) ==
  IF n = 0 THEN <<>>
  ELSE IF from \in used THEN FreshIds(used, n, from + 1)
  ELSE <<from>> \o FreshIds(used, n - 1, from + 1)

UsedPollIds == {r.id : r \in polls} \cup {call[p].poll : p \in Procs} \cup {last.poll}

UsedOptionIds == {o.id : o \in options} \cup {call[p].opt : p \in Procs}

\* polls: check (length(btrim(question)) > 0), check_expires_at_future
PollChecksHold(row) ==
  /\ Len(Trim(row.question)) > 0
  /\ (row.expires_at = NoTime \/ row.expires_at > row.created_at)

\* policy "Polls insert by owner"
PollInsertAllowed(session, row) == session # Anon /\ row.created_by = session

\* the policies, were they to admit every authenticated user
PollWritableByAuthenticated(session, row) == session # Anon

\* policies "Polls update by owner" / "Polls delete by owner": the rows the
\* statement can see
PollWritableBy(session, row) == session # Anon /\ row.created_by = session

\* policies "Options insert/update/delete by poll owner"
OptionWritableBy(session, pollId) ==
  /\ session # Anon
  /\ \E r \in polls : r.id = pollId /\ r.created_by = session

\* the policies, were the voter of an authenticated insert left unchecked
VoteInsertAllowedAnyVoter(session, row) ==
  IF session = Anon THEN row.voter_id = NoVoter ELSE TRUE

\* policies "Votes insert by authenticated" / "Votes insert by anon"
VoteInsertAllowed(session, row) ==
  IF session = Anon THEN row.voter_id = NoVoter ELSE row.voter_id = session

\* the index, were it on (poll_id, option_id, voter_id)
VoteUniquePerOption(row) ==
  row.voter_id = NoVoter
    \/ ~\E v \in VoteRows : v.poll_id = row.poll_id /\ v.option_id = row.option_id
                               /\ v.voter_id = row.voter_id

\* the table without the index
VoteUniqueAbsent(row) == TRUE

\* the index, were it not partial: null voters collide like any other
VoteUniqueForAll(row) ==
  ~\E v \in VoteRows : v.poll_id = row.poll_id /\ v.voter_id = row.voter_id

\* unique index votes_one_per_user_per_poll (partial: voter_id is not null)
VoteUniqueHolds(row) ==
  row.voter_id = NoVoter
    \/ ~\E v \in VoteRows : v.poll_id = row.poll_id /\ v.voter_id = row.voter_id

\* the table without fk_vote_option_in_poll
VotePollExists(row) == \E r \in polls : r.id = row.poll_id

\* votes.poll_id references polls(id); fk_vote_option_in_poll
VoteForeignKeysHold(row) ==
  /\ \E r \in polls : r.id = row.poll_id
  /\ \E o \in options : o.id = row.option_id /\ o.poll_id = row.poll_id

\* insert into polls: the error of the statement (NoError when accepted)
InsertPollError(session, row) ==
  IF ~PollInsertAllowed(session, row) THEN RLS_VIOLATION
  ELSE IF ~PollChecksHold(row) THEN CHECK_VIOLATION
  ELSE NoError

\* insert into poll_options of several rows in one statement
InsertOptionsError(session, pollId, labels) ==
  IF ~OptionWritableBy(session, pollId) THEN RLS_VIOLATION
  ELSE IF \E i \in 1..Len(labels) : Len(Trim(labels[i])) = 0 THEN CHECK_VIOLATION
  ELSE IF \/ Cardinality(Range(labels)) # Len(labels)
          \/ \E o \in options : o.poll_id = pollId /\ o.label \in Range(labels)
    THEN UNIQUE_CONSTRAINT_VIOLATION
  ELSE IF ~\E r \in polls : r.id = pollId THEN FOREIGN_KEY_VIOLATION
  ELSE NoError

\* insert into votes: row security, then the unique index, then the foreign
\* keys (checked at the end of the statement)
InsertVoteError(session, row) ==
  IF ~VoteInsertAllowed(session, row) THEN RLS_VIOLATION
  ELSE IF ~VoteUniqueHolds(row) THEN UNIQUE_CONSTRAINT_VIOLATION
  ELSE IF ~VoteForeignKeysHold(row) THEN FOREIGN_KEY_VIOLATION
  ELSE NoError

\* delete from polls where id = pollId, with the cascades of the schema
PollsAfterDelete(session, pollId) ==
  {r \in polls : ~(r.id = pollId /\ PollWritableBy(session, r))}

OptionsAfterPollDelete(session, pollId) ==
  {o \in options : \E r \in PollsAfterDelete(session, pollId) : r.id = o.poll_id}

VotesAfterPollDelete(session, pollId) ==
  VotesWhere(LAMBDA v : \E r \in PollsAfterDelete(session, pollId) : r.id = v.poll_id)

\* updatePollOptions, were the old options not deleted
OptionsAfterNoClear(session, pollId) == options

\* delete from poll_options where poll_id = pollId, cascading to votes
OptionsAfterClear(session, pollId) ==
  {o \in options : ~(o.poll_id = pollId /\ OptionWritableBy(session, pollId))}

\* the delete, were the votes not cascaded from the options
VotesAfterClearNoCascade(session, pollId) == votes

VotesAfterClear(session, pollId) ==
  VotesWhere(LAMBDA v : \E o \in OptionsAfterClear(session, pollId) :
                           o.id = v.option_id /\ o.poll_id = v.poll_id)

\* what a delete took away: the labels of the options and the number of votes
RemovedLabels(optionsAfter) == {o.label : o \in options \ optionsAfter}

RemovedVotes(votesAfter) == BagCardinality(votes) - BagCardinality(votesAfter)

\* the view, were it to count the voters of an option and not its votes
VoteCountsDistinct(pollId) ==
  {[option_id |-> o.id, poll_id |-> o.poll_id,
    vote_count |-> Cardinality({v \in DOMAIN votes : v.option_id = o.id})]
     : o \in {x \in options : x.poll_id = pollId}}

\* view poll_option_vote_counts, filtered by poll_id
VoteCounts(pollId) ==
  {[option_id |-> o.id, poll_id |-> o.poll_id,
    vote_count |-> BagCardinality(VotesWhere(LAMBDA v : v.option_id = o.id))]
     : o \in {x \in options : x.poll_id = pollId}}

\* ------------------------------------------------------------------------
\* Inputs the clients draw from
\* ------------------------------------------------------------------------
QuestionOk == <<"a", "b", "c">>

QuestionPadded == <<" ", "a", "b", "c", "d", " ">>

QuestionShort == <<" ", "a", "b", " ">>

QuestionLong == Rep("q", QUESTION_MAX_LENGTH + 1)

DescriptionPadded == <<"d", " ">>

DescriptionLong == Rep("d", DESCRIPTION_MAX_LENGTH + 1)

DateBad == <<"x">>

DateOne == <<"1">>

DateZero == <<"0">>

\* n pairwise different labels: x, xx, xxx, ...
GenLabels(n) == [i \in 1..n |-> Rep("x", i)]

OptsAB == << <<" ", "A", " ">>, <<>>, <<"B">> >>

OptsCD == << <<"C">>, <<"D">> >>

OptsOne == << <<"A">>, <<" ">> >>

OptsNone == <<>>

OptsDup == << <<"A">>, <<"A", " ">> >>

OptsMax == GenLabels(OPTIONS_MAX_COUNT)

OptsTooMany == GenLabels(OPTIONS_MAX_COUNT + 1)

\* createPoll inputs: a valid request and its variations in one field
CreateBase ==
  [question |-> QuestionOk, description |-> NullText, expiresAt |-> NullText,
   options |-> OptsAB]

CreateInputs ==
  {[CreateBase EXCEPT !.question = q] : q \in {QuestionOk, QuestionShort, QuestionLong}}
    \cup {[CreateBase EXCEPT !.description = d] : d \in {DescriptionLong}}
    \cup {[CreateBase EXCEPT !.expiresAt = e] : e \in {DateBad, DateZero, DateOne}}
    \cup {[CreateBase EXCEPT !.options = o] :
             o \in {OptsNone, OptsOne, OptsDup, OptsMax, OptsTooMany}}

\* updatePoll inputs
UpdateBase ==
  [question |-> QuestionPadded, description |-> DescriptionPadded, expiresAt |-> NullText]

UpdateInputs ==
  {[UpdateBase EXCEPT !.question = q] : q \in {QuestionPadded, QuestionShort}}
    \cup {[UpdateBase EXCEPT !.description = d] : d \in {DescriptionLong}}
    \cup {[UpdateBase EXCEPT !.expiresAt = e] : e \in {DateBad, DateOne}}

UpdateOptions == {OptsAB, OptsCD, OptsOne}

\* updatePollComplete inputs: hasOptions is FALSE when options is omitted
CompleteInputs ==
  {[question |-> QuestionPadded, description |-> DescriptionPadded, expiresAt |-> NullText,
    options |-> o, hasOptions |-> TRUE] : o \in UpdateOptions \cup {<<>>}}
    \cup {[question |-> q, description |-> DescriptionPadded, expiresAt |-> NullText,
           options |-> <<>>, hasOptions |-> FALSE] : q \in {QuestionPadded, QuestionShort}}
    \cup {[question |-> QuestionShort, description |-> DescriptionPadded,
           expiresAt |-> NullText, options |-> OptsCD, hasOptions |-> TRUE]}

\* <<session, userId>> of the calls that take the acting user: the signed-in
\* user passes the own id; a visitor and another user pass the id of u1
OwnerPrincipals ==
  {<<u, u>> : u \in Users} \cup {<<Anon, "u1">>, <<"u2", "u1">>}

\* <<session, userId>> of createPoll: the users are interchangeable, u1 is the
\* one who creates; a visitor and another user pass the id of u1
CreatorPrincipals == {<<"u1", "u1">>, <<Anon, "u1">>, <<"u2", "u1">>}

\* <<session, voterId>> of castVote
VotePrincipals ==
  {<<u, u>> : u \in Users}
    \cup {<<Anon, NoVoter>>, <<Anon, "u1">>, <<"u1", NoVoter>>, <<"u2", "u1">>}

PollIdInputs == {r.id : r \in polls} \cup {NoId}

\* the first two options of every poll, and an id that is no option
OptionIdInputs == {o.id : o \in {x \in options : x.position < 2}} \cup {NoId}

\* ------------------------------------------------------------------------
\* Calls
\* ------------------------------------------------------------------------
NoCall ==
  [op |-> "none", session |-> Anon, user |-> NoVoter, poll |-> NoId, opt |-> NoId,
   voter |-> NoVoter, question |-> <<>>, description |-> NullText,
   expiresAt |-> NullText, options |-> <<>>, hasOptions |-> FALSE,
   outer |-> FALSE, checks |-> 0, queries |-> 0, wrote |-> FALSE,
   goneLabels |-> {}, goneVotes |-> 0, service |-> [kind |-> "none"],
   res |-> Pending]

\* no call returned in the latest step
NoOutcome == NoCall

Busy(p) == pc[p] # "idle"

\* the clients are interchangeable: of the idle ones, the first makes the call
CanInvoke(p) ==
  /\ ~Busy(p)
  /\ \A q \in Procs : q < p => Busy(q)
  /\ calls < MaxCalls
  /\ Cardinality({q \in Procs : Busy(q)}) < maxInFlight

FaultChoices == IF faults > 0 THEN {TRUE, FALSE} ELSE {FALSE}

UseFault(fault) == faults' = IF fault THEN faults - 1 ELSE faults

\* the call of p goes on to its next await
Goto(p, c, stage) ==
  /\ call' = [call EXCEPT ![p] = c]
  /\ pc' = [pc EXCEPT ![p] = stage]
  /\ last' = NoOutcome
  /\ UNCHANGED form

\* the call of p returns res
Finish(p, c, res) ==
  /\ call' = [call EXCEPT ![p] = NoCall]
  /\ pc' = [pc EXCEPT ![p] = "idle"]
  /\ last' = [c EXCEPT !.res = res]
  /\ UNCHANGED form

Invoked == calls' = calls + 1

StoreUnchanged == UNCHANGED <<polls, options, votes>>

Init ==
  /\ polls = {}
  /\ options = {}
  /\ votes = EmptyBag
  /\ now = 0
  /\ faults = 0
  /\ maxInFlight = NumProcs
  /\ calls = 0
  /\ pc = [p \in Procs |-> "idle"]
  /\ call = [p \in Procs |-> NoCall]
  /\ last = NoOutcome
  /\ form = NewForm

\* one call at a time
InitSeq ==
  /\ polls = {}
  /\ options = {}
  /\ votes = EmptyBag
  /\ now = 0
  /\ faults = 0
  /\ maxInFlight = 1
  /\ calls = 0
  /\ pc = [p \in Procs |-> "idle"]
  /\ call = [p \in Procs |-> NoCall]
  /\ last = NoOutcome
  /\ form = NewForm

\* one call at a time, and store calls may fail for external reasons
InitFault ==
  /\ polls = {}
  /\ options = {}
  /\ votes = EmptyBag
  /\ now = 0
  /\ faults = MaxFaults
  /\ maxInFlight = 1
  /\ calls = 0
  /\ pc = [p \in Procs |-> "idle"]
  /\ call = [p \in Procs |-> NoCall]
  /\ last = NoOutcome
  /\ form = NewForm

Tick ==
  /\ now < MaxNow
  /\ now' = now + 1
  /\ last' = NoOutcome
  /\ UNCHANGED form
  /\ UNCHANGED <<polls, options, votes, faults, maxInFlight, calls, pc, call>>

\* ------------------------------------------------------------------------
\* assertPollOwnership
\* ------------------------------------------------------------------------
\* the handler, were PGRST116 not told apart
handleDatabaseErrorGeneric(code, operation) == PollError(operation)

handleDatabaseError(code, operation) ==
  IF code = POLL_NOT_FOUND THEN NotFoundError("Poll not found")
  ELSE PollError(operation)

\* the check, were created_by not compared with userId
assertPollExists(pollId, userId, fault) ==
  IF fault THEN handleDatabaseError(STORE_FAULT, "Failed to verify poll ownership")
  ELSE IF ~\E r \in polls : r.id = pollId
    THEN handleDatabaseError(POLL_NOT_FOUND, "Failed to verify poll ownership")
  ELSE Ok(NoId)

\* the outcome of the ownership check against the current rows
assertPollOwnership(pollId, userId, fault) ==
  IF fault THEN handleDatabaseError(STORE_FAULT, "Failed to verify poll ownership")
  ELSE IF ~\E r \in polls : r.id = pollId
    THEN handleDatabaseError(POLL_NOT_FOUND, "Failed to verify poll ownership")
  ELSE IF \E r \in polls : r.id = pollId /\ r.created_by # userId
    THEN UnauthorizedError("You can only modify your own polls")
  ELSE Ok(NoId)

\* ------------------------------------------------------------------------
\* createPoll
\* ------------------------------------------------------------------------
\* the first failing validator in the order the code runs them
CreatePollValidation(c, clock) ==
  LET q == ValidateQuestion(c.question)
      d == ValidateDescription(c.description)
      e == ValidateExpiresAt(c.expiresAt, clock)
      o == ValidateOptions(c.options)
  IN IF ~q.ok THEN q.msg
     ELSE IF ~d.ok THEN d.msg
     ELSE IF ~e.ok THEN e.msg
     ELSE IF ~o.ok THEN o.msg
     ELSE ""

\* the call runs its validators and sends the insert of the poll
createPoll(p) ==
  /\ CanInvoke(p)
  /\ Cardinality(polls) + Cardinality({q \in Procs : pc[q] = "cp_poll"}) < MaxPolls
  /\ \E who \in CreatorPrincipals, data \in CreateInputs :
       LET c == [NoCall EXCEPT !.op = "createPoll", !.session = who[1], !.user = who[2],
                               !.question = data.question,
                               !.description = data.description,
                               !.expiresAt = data.expiresAt,
                               !.options = data.options, !.hasOptions = TRUE]
           bad == CreatePollValidation(c, now)
       IN IF bad # "" THEN Finish(p, c, ValidationError(bad))
          ELSE Goto(p, c, "cp_poll")
  /\ Invoked
  /\ UNCHANGED <<polls, options, votes, now, faults, maxInFlight>>

\* the store runs the insert of the poll; the call sends the insert of the options
createPollInsertPoll(p) ==
  /\ pc[p] = "cp_poll"
  /\ \E fault \in FaultChoices :
       LET c == call[p]
           id == FreshIds(UsedPollIds, 1, 1)[1]
           row == PollRow(id, ValidateQuestion(c.question).val,
                          ValidateDescription(c.description).val, c.user, now,
                          ParseDate(c.expiresAt))
           err == IF fault THEN STORE_FAULT ELSE InsertPollError(c.session, row)
       IN /\ UseFault(fault)
          /\ IF err # NoError
               THEN /\ Finish(p, c, PollError("Failed to create poll"))
                    /\ UNCHANGED polls
               ELSE /\ polls' = polls \cup {row}
                    /\ Goto(p, [c EXCEPT !.poll = id, !.wrote = TRUE], "cp_options")
  /\ UNCHANGED <<options, votes, now, maxInFlight, calls>>

\* createOptionsData, were the last label lost
NewOptionRowsButLast(pollId, labels) ==
  LET ids == FreshIds(UsedOptionIds, Len(labels), 1)
  IN {OptionRow(ids[i], pollId, labels[i], i - 1) : i \in 1..(Len(labels) - 1)}

\* the rows insertPollOptions sends and the store adds
NewOptionRows(pollId, labels) ==
  LET ids == FreshIds(UsedOptionIds, Len(labels), 1)
  IN {OptionRow(ids[i], pollId, labels[i], i - 1) : i \in 1..Len(labels)}

\* insertPollOptions: the error of the insert, NoError when the rows were added
insertPollOptions(session, pollId, labels, fault) ==
  IF fault THEN STORE_FAULT ELSE InsertOptionsError(session, pollId, labels)

createPollInsertOptions(p) ==
  /\ pc[p] = "cp_options"
  /\ \E fault \in FaultChoices :
       LET c == call[p]
           labels == ValidateOptions(c.options).val
           err == insertPollOptions(c.session, c.poll, labels, fault)
       IN /\ UseFault(fault)
          /\ IF err # NoError
               THEN /\ Finish(p, c, PollError("Failed to insert poll options"))
                    /\ UNCHANGED options
               ELSE /\ options' = options \cup NewOptionRows(c.poll, labels)
                    /\ Finish(p, c, Ok(c.poll))
  /\ UNCHANGED <<polls, votes, now, maxInFlight, calls>>

\* ------------------------------------------------------------------------
\* castVote
\* ------------------------------------------------------------------------
\* select id from poll_options where id = optionId and poll_id = pollId, .single()
OptionInPoll(optionId, pollId) ==
  \E o \in options : o.id = optionId /\ o.poll_id = pollId

\* the call looks the option up; when it is one of the poll, it sends the insert
castVote(p) ==
  /\ CanInvoke(p)
  /\ BagCardinality(votes) + Cardinality({q \in Procs : pc[q] = "cv_insert"}) < MaxVotes
  /\ \E who \in VotePrincipals, pollId \in PollIdInputs, optionId \in OptionIdInputs,
        fault \in FaultChoices :
       LET c == [NoCall EXCEPT !.op = "castVote", !.session = who[1], !.poll = pollId,
                               !.opt = optionId, !.voter = who[2]]
       IN /\ UseFault(fault)
          /\ IF fault \/ ~OptionInPoll(c.opt, c.poll)
               THEN Finish(p, c, ValidationError("Invalid option for this poll"))
               ELSE Goto(p, c, "cv_insert")
  /\ Invoked
  /\ UNCHANGED <<polls, options, votes, now, maxInFlight>>

castVoteInsert(p) ==
  /\ pc[p] = "cv_insert"
  /\ \E fault \in FaultChoices :
       LET c == call[p]
           row == VoteRow(c.poll, c.opt, c.voter)
           err == IF fault THEN STORE_FAULT ELSE InsertVoteError(c.session, row)
       IN /\ UseFault(fault)
          /\ IF err = NoError
               THEN /\ votes' = votes (+) SetToBag({row})
                    /\ Finish(p, [c EXCEPT !.wrote = TRUE], Ok(NoId))
               ELSE /\ UNCHANGED votes
                    /\ IF err = UNIQUE_CONSTRAINT_VIOLATION
                         THEN Finish(p, c, ValidationError("You have already voted on this poll"))
                         ELSE Finish(p, c, PollError("Failed to cast vote"))
  /\ UNCHANGED <<polls, options, now, maxInFlight, calls>>

\* ------------------------------------------------------------------------
\* deletePoll
\* ------------------------------------------------------------------------
\* the call checks the ownership; when it holds, it sends the delete
deletePoll(p) ==
  /\ CanInvoke(p)
  /\ \E who \in OwnerPrincipals, pollId \in PollIdInputs, fault \in FaultChoices :
       LET c == [NoCall EXCEPT !.op = "deletePoll", !.session = who[1], !.poll = pollId,
                               !.user = who[2], !.checks = 1]
           res == assertPollOwnership(c.poll, c.user, fault)
       IN /\ UseFault(fault)
          /\ IF res.kind # "ok" THEN Finish(p, c, res) ELSE Goto(p, c, "dp_delete")
  /\ Invoked
  /\ UNCHANGED <<polls, options, votes, now, maxInFlight>>

deletePollDelete(p) ==
  /\ pc[p] = "dp_delete"
  /\ \E fault \in FaultChoices :
       LET c == call[p]
       IN /\ UseFault(fault)
          /\ IF fault
               THEN /\ Finish(p, c, PollError("Failed to delete poll"))
                    /\ StoreUnchanged
               ELSE /\ polls' = PollsAfterDelete(c.session, c.poll)
                    /\ options' = OptionsAfterPollDelete(c.session, c.poll)
                    /\ votes' = VotesAfterPollDelete(c.session, c.poll)
                    /\ Finish(p, [c EXCEPT !.wrote =
                                      @ \/ PollsAfterDelete(c.session, c.poll) # polls,
                                    !.goneLabels = RemovedLabels(
                                      OptionsAfterPollDelete(c.session, c.poll)),
                                    !.goneVotes = RemovedVotes(
                                      VotesAfterPollDelete(c.session, c.poll))],
                              Ok(NoId))
  /\ UNCHANGED <<now, maxInFlight, calls>>

\* ------------------------------------------------------------------------
\* updatePoll
\* ------------------------------------------------------------------------
UpdatePollValidation(c, clock) ==
  LET q == ValidateQuestion(c.question)
      d == ValidateDescription(c.description)
      e == ValidateExpiresAt(c.expiresAt, clock)
  IN IF ~q.ok THEN q.msg
     ELSE IF ~d.ok THEN d.msg
     ELSE IF ~e.ok THEN e.msg
     ELSE ""

\* updatePoll up to its update: the ownership check, then the validators
UpdatePollChecked(p, call0, fault) ==
  LET c == [call0 EXCEPT !.checks = @ + 1]
      res == assertPollOwnership(c.poll, c.user, fault)
      bad == UpdatePollValidation(c, now)
  IN /\ UseFault(fault)
     /\ IF res.kind # "ok" THEN Finish(p, c, res)
        ELSE IF bad # "" THEN Finish(p, c, ValidationError(bad))
        ELSE Goto(p, c, "up_write")

updatePoll(p) ==
  /\ CanInvoke(p)
  /\ \E who \in OwnerPrincipals, pollId \in PollIdInputs, data \in UpdateInputs,
        fault \in FaultChoices :
       UpdatePollChecked(p, [NoCall EXCEPT !.op = "updatePoll", !.session = who[1],
                                           !.poll = pollId, !.user = who[2],
                                           !.question = data.question,
                                           !.description = data.description,
                                           !.expiresAt = data.expiresAt], fault)
  /\ Invoked
  /\ UNCHANGED <<polls, options, votes, now, maxInFlight>>

\* updatePoll called by updatePollComplete
updatePollAssert(p) ==
  /\ pc[p] = "up_assert"
  /\ \E fault \in FaultChoices : UpdatePollChecked(p, call[p], fault)
  /\ UNCHANGED <<polls, options, votes, now, maxInFlight, calls>>

\* update polls set question, description, expires_at where id = pollId
UpdatedPollRow(r, c) ==
  [r EXCEPT !.question = ValidateQuestion(c.question).val,
            !.description = ValidateDescription(c.description).val,
            !.expires_at = ParseDate(c.expiresAt)]

PollsAfterUpdate(c) ==
  {IF r.id = c.poll /\ PollWritableBy(c.session, r) THEN UpdatedPollRow(r, c) ELSE r
     : r \in polls}

UpdatePollError(c) ==
  IF \E r \in polls : r.id = c.poll /\ PollWritableBy(c.session, r)
                        /\ ~PollChecksHold(UpdatedPollRow(r, c))
    THEN CHECK_VIOLATION
  ELSE NoError

\* updatePollComplete, were it to enter updatePollOptions whatever data holds
OptionsAlwaysGiven(c) == TRUE

\* if (data.options): an array, empty or not, counts as given
OptionsGiven(c) == c.hasOptions

updatePollWrite(p) ==
  /\ pc[p] = "up_write"
  /\ \E fault \in FaultChoices :
       LET c == call[p]
           err == IF fault THEN STORE_FAULT ELSE UpdatePollError(c)
           after == [c EXCEPT !.wrote = @ \/ PollsAfterUpdate(c) # polls]
       IN /\ UseFault(fault)
          /\ IF err # NoError
               THEN /\ Finish(p, c, PollError("Failed to update poll"))
                    /\ UNCHANGED polls
               ELSE /\ polls' = PollsAfterUpdate(c)
                    /\ IF c.outer /\ OptionsGiven(c) THEN Goto(p, after, "uo_assert")
                       ELSE Finish(p, after, Ok(NoId))
  /\ UNCHANGED <<options, votes, now, maxInFlight, calls>>

\* ------------------------------------------------------------------------
\* updatePollOptions
\* ------------------------------------------------------------------------
\* updatePollOptions up to its delete: the ownership check, then validators.options
UpdatePollOptionsChecked(p, call0, fault) ==
  LET c == [call0 EXCEPT !.checks = @ + 1]
      res == assertPollOwnership(c.poll, c.user, fault)
      o == ValidateOptions(c.options)
  IN /\ UseFault(fault)
     /\ IF res.kind # "ok" THEN Finish(p, c, res)
        ELSE IF ~o.ok THEN Finish(p, c, ValidationError(o.msg))
        ELSE Goto(p, c, "uo_clear")

updatePollOptions(p) ==
  /\ CanInvoke(p)
  /\ \E who \in OwnerPrincipals, pollId \in PollIdInputs, o \in UpdateOptions,
        fault \in FaultChoices :
       UpdatePollOptionsChecked(p, [NoCall EXCEPT !.op = "updatePollOptions",
                                                  !.session = who[1], !.poll = pollId,
                                                  !.user = who[2], !.options = o,
                                                  !.hasOptions = TRUE], fault)
  /\ Invoked
  /\ UNCHANGED <<polls, options, votes, now, maxInFlight>>

\* updatePollOptions called by updatePollComplete
updatePollOptionsAssert(p) ==
  /\ pc[p] = "uo_assert"
  /\ \E fault \in FaultChoices : UpdatePollOptionsChecked(p, call[p], fault)
  /\ UNCHANGED <<polls, options, votes, now, maxInFlight, calls>>

\* clearPollOptions
clearPollOptions(p) ==
  /\ pc[p] = "uo_clear"
  /\ \E fault \in FaultChoices :
       LET c == call[p]
       IN /\ UseFault(fault)
          /\ IF fault
               THEN /\ Finish(p, c, PollError("Failed to clear poll options"))
                    /\ UNCHANGED <<options, votes>>
               ELSE /\ options' = OptionsAfterClear(c.session, c.poll)
                    /\ votes' = VotesAfterClear(c.session, c.poll)
                    /\ Goto(p, [c EXCEPT !.wrote =
                                    @ \/ OptionsAfterClear(c.session, c.poll) # options,
                                  !.goneLabels = RemovedLabels(
                                    OptionsAfterClear(c.session, c.poll)),
                                  !.goneVotes = RemovedVotes(
                                    VotesAfterClear(c.session, c.poll))],
                            "uo_insert")
  /\ UNCHANGED <<polls, now, maxInFlight, calls>>

updatePollOptionsInsert(p) ==
  /\ pc[p] = "uo_insert"
  /\ \E fault \in FaultChoices :
       LET c == call[p]
           labels == ValidateOptions(c.options).val
           err == insertPollOptions(c.session, c.poll, labels, fault)
       IN /\ UseFault(fault)
          /\ IF err # NoError
               THEN /\ Finish(p, c, PollError("Failed to insert poll options"))
                    /\ UNCHANGED options
               ELSE /\ options' = options \cup NewOptionRows(c.poll, labels)
                    /\ Finish(p, [c EXCEPT !.wrote = TRUE], Ok(NoId))
  /\ UNCHANGED <<polls, votes, now, maxInFlight, calls>>

\* ------------------------------------------------------------------------
\* updatePollComplete
\* ------------------------------------------------------------------------
\* the call checks the ownership; when it holds, it enters updatePoll
updatePollComplete(p) ==
  /\ CanInvoke(p)
  /\ \E who \in OwnerPrincipals, pollId \in PollIdInputs, data \in CompleteInputs,
        fault \in FaultChoices :
       LET c == [NoCall EXCEPT !.op = "updatePollComplete", !.session = who[1],
                               !.poll = pollId, !.user = who[2],
                               !.question = data.question,
                               !.description = data.description,
                               !.expiresAt = data.expiresAt, !.options = data.options,
                               !.hasOptions = data.hasOptions, !.outer = TRUE,
                               !.checks = 1]
           res == assertPollOwnership(c.poll, c.user, fault)
       IN /\ UseFault(fault)
          /\ IF res.kind # "ok" THEN Finish(p, c, res) ELSE Goto(p, c, "up_assert")
  /\ Invoked
  /\ UNCHANGED <<polls, options, votes, now, maxInFlight>>

\* ------------------------------------------------------------------------
\* getPollWithOptions, read when no write is in between its queries
\* ------------------------------------------------------------------------
\* order by position, then created_at (the id stands for the time of the insert)
OptionBefore(a, b) ==
  a.position < b.position \/ (a.position = b.position /\ a.id < b.id)

\* .order('position', { ascending: true }): the i-th row has i - 1 rows before it
SortOptions(S) ==
  [i \in 1..Cardinality(S) |->
     CHOOSE a \in S : Cardinality({b \in S : OptionBefore(b, a)}) = i - 1]

transformToPollOption(opt, voteCount) ==
  [id |-> opt.id, label |-> opt.label, voteCount |-> voteCount]

fetchOptionsWithVoteCounts(pollId) ==
  LET rows == SortOptions({o \in options : o.poll_id = pollId})
      counts == VoteCounts(pollId)
      CountOf(id) == IF \E vc \in counts : vc.option_id = id
                       THEN (CHOOSE vc \in counts : vc.option_id = id).vote_count
                       ELSE 0
  IN [i \in 1..Len(rows) |-> transformToPollOption(rows[i], CountOf(rows[i].id))]

\* <<>> stands for null (no such poll)
getPollWithOptions(pollId) ==
  IF ~\E r \in polls : r.id = pollId THEN <<>>
  ELSE LET r == CHOOSE x \in polls : x.id = pollId
       IN <<[id |-> r.id, question |-> r.question, description |-> r.description,
             options |-> fetchOptionsWithVoteCounts(pollId),
             createdBy |-> r.created_by, createdAt |-> r.created_at,
             expiresAt |-> r.expires_at]>>

\* the store calls of a read that may fail: the select of the poll, of the
\* vote counts, of the options
ReadFaults == IF faults > 0 THEN {"none", "poll", "counts", "options"} ELSE {"none"}

\* getPollWithOptions as the first version of the library has it: any error
\* of the select of the poll reads as no poll
getPollWithOptionsNullOnError(pollId, fault) ==
  IF fault = "poll" \/ getPollWithOptions(pollId) = <<>> THEN Ok(<<>>)
  ELSE IF fault = "counts" THEN PollError("Failed to fetch vote counts")
  ELSE IF fault = "options" THEN PollError("Failed to fetch poll options")
  ELSE Ok(getPollWithOptions(pollId))

\* what the call returns or throws when the store call named by fault fails
\* with a code other than PGRST116
getPollWithOptionsOutcome(pollId, fault) ==
  IF fault = "poll" THEN PollError("Failed to fetch poll")
  ELSE IF getPollWithOptions(pollId) = <<>> THEN Ok(<<>>)
  ELSE IF fault = "counts" THEN PollError("Failed to fetch vote counts")
  ELSE IF fault = "options" THEN PollError("Failed to fetch poll options")
  ELSE Ok(getPollWithOptions(pollId))

\* the call, with no write between its queries; the queries of the options
\* are only sent when the poll was found
getPollWithOptionsCall(p) ==
  /\ CanInvoke(p)
  /\ \E pollId \in PollIdInputs, fault \in ReadFaults :
       /\ fault \in {"counts", "options"} => \E r \in polls : r.id = pollId
       /\ faults' = IF fault = "none" THEN faults ELSE faults - 1
       /\ Finish(p, [NoCall EXCEPT !.op = "getPollWithOptions", !.poll = pollId],
                 getPollWithOptionsOutcome(pollId, fault))
  /\ Invoked
  /\ UNCHANGED <<polls, options, votes, now, maxInFlight>>

\* ------------------------------------------------------------------------
\* getUserPolls
\* ------------------------------------------------------------------------
\* the queries of the first version of the library: the polls, then the
\* options and the vote counts of each poll
getUserPollsQueriesPerPoll(userId, fault) ==
  IF fault = "poll" THEN 1
  ELSE 1 + 2 * Cardinality({r \in polls : r.created_by = userId})

\* the store calls the function sends: the polls, then for all of them at
\* once the vote counts, then the options
getUserPollsQueries(userId, fault) ==
  IF fault = "poll" \/ ~\E r \in polls : r.created_by = userId THEN 1
  ELSE IF fault = "counts" THEN 2
  ELSE 3

\* the polls of the user, the latest first (the id stands for the time of the
\* insert within one tick of the clock), each with its options
getUserPollsOutcome(userId, fault) ==
  LET mine == {r \in polls : r.created_by = userId}
      Later(a, b) == a.created_at > b.created_at
                       \/ (a.created_at = b.created_at /\ a.id > b.id)
  IN IF fault = "poll" THEN PollError("Failed to fetch user polls")
     ELSE IF mine = {} THEN Ok(<<>>)
     ELSE IF fault = "counts" THEN PollError("Failed to fetch vote counts")
     ELSE IF fault = "options" THEN PollError("Failed to fetch poll options")
     ELSE Ok([i \in 1..Cardinality(mine) |->
                getPollWithOptions(
                  (CHOOSE a \in mine :
                     Cardinality({b \in mine : Later(b, a)}) = i - 1).id)[1]])

\* the call, with no write between its queries
getUserPolls(p) ==
  /\ CanInvoke(p)
  /\ \E userId \in Users, fault \in ReadFaults :
       /\ fault \in {"counts", "options"} => \E r \in polls : r.created_by = userId
       /\ faults' = IF fault = "none" THEN faults ELSE faults - 1
       /\ Finish(p, [NoCall EXCEPT !.op = "getUserPolls", !.user = userId,
                                   !.queries = getUserPollsQueries(userId, fault)],
                 getUserPollsOutcome(userId, fault))
  /\ Invoked
  /\ UNCHANGED <<polls, options, votes, now, maxInFlight>>

\* ------------------------------------------------------------------------
\* hasUserVoted
\* ------------------------------------------------------------------------
\* the select without .eq('voter_id', voterId)
hasUserVotedAnyVoter(pollId, voterId, fault) ==
  LET n == BagCardinality(VotesWhere(LAMBDA v : v.poll_id = pollId))
      code == IF fault THEN STORE_FAULT ELSE IF n = 1 THEN NoError ELSE POLL_NOT_FOUND
  IN IF code # NoError /\ code # POLL_NOT_FOUND
       THEN PollError("Failed to check vote status")
       ELSE Ok(code = NoError)

\* .single() gives the row when exactly one row matches and the error
\* PGRST116 otherwise; data is null with any error
hasUserVotedOutcome(pollId, voterId, fault) ==
  LET n == BagCardinality(VotesWhere(LAMBDA v : v.poll_id = pollId /\ v.voter_id = voterId))
      code == IF fault THEN STORE_FAULT ELSE IF n = 1 THEN NoError ELSE POLL_NOT_FOUND
  IN IF code # NoError /\ code # POLL_NOT_FOUND
       THEN PollError("Failed to check vote status")
       ELSE Ok(code = NoError)

hasUserVoted(p) ==
  /\ CanInvoke(p)
  /\ \E pollId \in PollIdInputs, voterId \in Users, fault \in FaultChoices :
       /\ UseFault(fault)
       /\ Finish(p, [NoCall EXCEPT !.op = "hasUserVoted", !.poll = pollId,
                                   !.voter = voterId],
                 hasUserVotedOutcome(pollId, voterId, fault))
  /\ Invoked
  /\ UNCHANGED <<polls, options, votes, now, maxInFlight>>

\* ------------------------------------------------------------------------
\* The store by itself: statements a client sends with its session, whatever
\* the library does. Row level security decides what each statement may do.
\* ------------------------------------------------------------------------
\* the error a statement returns
Refused(code) == [kind |-> "refused", msg |-> code, val |-> NoId]

\* one statement: what was sent, whether it changed a row, what it returned
Statement(op, session, pollId, optId, voterId, wrote, res) ==
  /\ calls < MaxStatements
  /\ calls' = calls + 1
  /\ last' = [NoCall EXCEPT !.op = op, !.session = session, !.poll = pollId,
                            !.opt = optId, !.voter = voterId, !.wrote = wrote,
                            !.res = res]
  /\ UNCHANGED <<now, faults, maxInFlight, pc, call, form>>

\* the votes table, had it a policy "update/delete by voter"
VoteWritableByVoter(session, row) == session # Anon /\ row.voter_id = session

\* votes has row level security and no policy for update or delete: such a
\* statement sees no row
VoteWritableBy(session, row) == FALSE

InsertPollStatement ==
  /\ Cardinality(polls) < MaxPolls
  /\ \E session \in Sessions, owner \in Users :
       LET id == FreshIds(UsedPollIds, 1, 1)[1]
           row == PollRow(id, QuestionOk, NullText, owner, now, NoTime)
           err == InsertPollError(session, row)
       IN /\ polls' = IF err = NoError THEN polls \cup {row} ELSE polls
          /\ Statement("insert polls", session, id, NoId, NoVoter, err = NoError,
                       IF err = NoError THEN Ok(id) ELSE Refused(err))
  /\ UNCHANGED <<options, votes>>

\* update polls set question = .., created_by = .. where id = ..: the row must
\* pass the policy before (using) and after (with check) the update
UpdatePollStatement ==
  /\ \E session \in Sessions, r \in polls, owner \in Users,
        question \in {QuestionOk, QuestionPadded} :
       LET new == [r EXCEPT !.question = question, !.created_by = owner]
           err == IF ~PollWritableBy(session, r) THEN NoError
                  ELSE IF ~PollWritableBy(session, new) THEN RLS_VIOLATION
                  ELSE IF ~PollChecksHold(new) THEN CHECK_VIOLATION
                  ELSE NoError
           after == IF PollWritableBy(session, r) /\ err = NoError
                      THEN (polls \ {r}) \cup {new} ELSE polls
       IN /\ polls' = after
          /\ Statement("update polls", session, r.id, NoId, NoVoter, after # polls,
                       IF err = NoError THEN Ok(NoId) ELSE Refused(err))
  /\ UNCHANGED <<options, votes>>

DeletePollStatement ==
  /\ \E session \in Sessions, r \in polls :
       /\ polls' = PollsAfterDelete(session, r.id)
       /\ options' = OptionsAfterPollDelete(session, r.id)
       /\ votes' = VotesAfterPollDelete(session, r.id)
       /\ Statement("delete polls", session, r.id, NoId, NoVoter,
                    PollsAfterDelete(session, r.id) # polls, Ok(NoId))

InsertOptionStatement ==
  /\ \E session \in Sessions, r \in polls, label \in {<<"A">>, <<"B">>} :
       LET err == InsertOptionsError(session, r.id, <<label>>)
           rows == NewOptionRows(r.id, <<label>>)
       IN /\ options' = IF err = NoError THEN options \cup rows ELSE options
          /\ Statement("insert poll_options", session, r.id, NoId, NoVoter,
                       err = NoError, IF err = NoError THEN Ok(NoId) ELSE Refused(err))
  /\ UNCHANGED <<polls, votes>>

\* update poll_options set poll_id = .., label = .. where id = ..; the votes of
\* the option refer to (id, poll_id) with no action on update
UpdateOptionStatement ==
  /\ \E session \in Sessions, o \in options, r \in polls, label \in {<<"A">>, <<"B">>} :
       LET new == [o EXCEPT !.poll_id = r.id, !.label = label]
           err == IF ~OptionWritableBy(session, o.poll_id) THEN NoError
                  ELSE IF ~OptionWritableBy(session, new.poll_id) THEN RLS_VIOLATION
                  ELSE IF \E x \in options \ {o} :
                            x.poll_id = new.poll_id /\ x.label = new.label
                    THEN UNIQUE_CONSTRAINT_VIOLATION
                  ELSE IF /\ new.poll_id # o.poll_id
                          /\ \E v \in VoteRows :
                               v.option_id = o.id /\ v.poll_id = o.poll_id
                    THEN FOREIGN_KEY_VIOLATION
                  ELSE NoError
           after == IF OptionWritableBy(session, o.poll_id) /\ err = NoError
                      THEN (options \ {o}) \cup {new} ELSE options
       IN /\ options' = after
          /\ Statement("update poll_options", session, o.poll_id, o.id, NoVoter,
                       after # options,
                       IF err = NoError THEN Ok(NoId) ELSE Refused(err))
  /\ UNCHANGED <<polls, votes>>

\* delete from poll_options where poll_id = ..
DeleteOptionsStatement ==
  /\ \E session \in Sessions, r \in polls :
       /\ options' = OptionsAfterClear(session, r.id)
       /\ votes' = VotesAfterClear(session, r.id)
       /\ Statement("delete poll_options", session, r.id, NoId, NoVoter,
                    OptionsAfterClear(session, r.id) # options, Ok(NoId))
  /\ UNCHANGED polls

InsertVoteStatement ==
  /\ BagCardinality(votes) < MaxVotes
  /\ \E session \in Sessions, o \in options, voterId \in Users \cup {NoVoter} :
       LET row == VoteRow(o.poll_id, o.id, voterId)
           err == InsertVoteError(session, row)
       IN /\ votes' = IF err = NoError THEN votes (+) SetToBag({row}) ELSE votes
          /\ Statement("insert votes", session, o.poll_id, o.id, voterId,
                       err = NoError, IF err = NoError THEN Ok(NoId) ELSE Refused(err))
  /\ UNCHANGED <<polls, options>>

\* update votes set option_id = .. where poll_id = .. and voter_id = ..
UpdateVoteStatement ==
  /\ \E session \in Sessions, v \in VoteRows, o \in options :
       LET seen == VoteWritableBy(session, v) /\ o.poll_id = v.poll_id
           after == IF seen
                      THEN (votes (-) SetToBag({v}))
                             (+) SetToBag({[v EXCEPT !.option_id = o.id]})
                      ELSE votes
       IN /\ votes' = after
          /\ Statement("update votes", session, v.poll_id, v.option_id, v.voter_id,
                       after # votes, Ok(NoId))
  /\ UNCHANGED <<polls, options>>

\* delete from votes where poll_id = .. and voter_id = ..
DeleteVoteStatement ==
  /\ \E session \in Sessions, v \in VoteRows :
       LET after == VotesWhere(LAMBDA x : ~(x = v /\ VoteWritableBy(session, x)))
       IN /\ votes' = after
          /\ Statement("delete votes", session, v.poll_id, v.option_id, v.voter_id,
                       after # votes, Ok(NoId))
  /\ UNCHANGED <<polls, options>>

StoreNext ==
  \/ InsertPollStatement
  \/ UpdatePollStatement
  \/ DeletePollStatement
  \/ InsertOptionStatement
  \/ UpdateOptionStatement
  \/ DeleteOptionsStatement
  \/ InsertVoteStatement
  \/ UpdateVoteStatement
  \/ DeleteVoteStatement

\* ------------------------------------------------------------------------
\* The two versions of the library side by side: each exported function run
\* from start to end on the same rows, with no other client and no failure of
\* the store in between.
\* ------------------------------------------------------------------------
\* throw new Error(m) of the first version; the errors of the store it throws
\* as they are (Refused)
PlainError(m) == [kind |-> "Error", msg |-> m, val |-> NoId]

\* the calls of either version: the function, the session of the client and
\* the arguments
CompatCalls ==
  {[NoCall EXCEPT !.op = "createPoll", !.session = who[1], !.user = who[2],
                  !.question = d.question, !.description = d.description,
                  !.expiresAt = d.expiresAt, !.options = d.options, !.hasOptions = TRUE]
     : who \in CreatorPrincipals, d \in CreateInputs}
  \cup {[NoCall EXCEPT !.op = "castVote", !.session = who[1], !.voter = who[2],
                       !.poll = pollId, !.opt = optionId]
          : who \in VotePrincipals, pollId \in PollIdInputs, optionId \in OptionIdInputs}
  \cup {[NoCall EXCEPT !.op = "deletePoll", !.session = who[1], !.user = who[2],
                       !.poll = pollId]
          : who \in OwnerPrincipals, pollId \in PollIdInputs}
  \cup {[NoCall EXCEPT !.op = "updatePoll", !.session = who[1], !.user = who[2],
                       !.poll = pollId, !.question = d.question,
                       !.description = d.description, !.expiresAt = d.expiresAt]
          : who \in OwnerPrincipals, pollId \in PollIdInputs, d \in UpdateInputs}
  \cup {[NoCall EXCEPT !.op = "updatePollOptions", !.session = who[1], !.user = who[2],
                       !.poll = pollId, !.options = o, !.hasOptions = TRUE]
          : who \in OwnerPrincipals, pollId \in PollIdInputs,
            o \in UpdateOptions \cup {OptsDup}}
  \cup {[NoCall EXCEPT !.op = "updatePollComplete", !.session = who[1], !.user = who[2],
                       !.poll = pollId, !.question = d.question,
                       !.description = d.description, !.expiresAt = d.expiresAt,
                       !.options = d.options, !.hasOptions = d.hasOptions]
          : who \in OwnerPrincipals, pollId \in PollIdInputs, d \in CompleteInputs}
  \cup {[NoCall EXCEPT !.op = "getPollWithOptions", !.poll = pollId]
          : pollId \in PollIdInputs}
  \cup {[NoCall EXCEPT !.op = "hasUserVoted", !.poll = pollId, !.voter = voterId]
          : pollId \in PollIdInputs, voterId \in Users}
  \cup {[NoCall EXCEPT !.op = "getUserPolls", !.user = userId] : userId \in Users}

\* the exported functions of the refactored library: what the call returns or
\* throws and the rows it leaves
Refactored(c) ==
  LET Same(res) == [res |-> res, polls |-> polls, options |-> options, votes |-> votes]
      owner == assertPollOwnership(c.poll, c.user, FALSE)
      \* updatePoll after its ownership check
      PollPart ==
        IF UpdatePollValidation(c, now) # ""
          THEN Same(ValidationError(UpdatePollValidation(c, now)))
        ELSE IF UpdatePollError(c) # NoError THEN Same(PollError("Failed to update poll"))
        ELSE [Same(Ok(NoId)) EXCEPT !.polls = PollsAfterUpdate(c)]
      \* updatePollOptions after its ownership check
      OptionsPart ==
        IF ~ValidateOptions(c.options).ok
          THEN Same(ValidationError(ValidateOptions(c.options).msg))
        ELSE IF ~OptionWritableBy(c.session, c.poll)
          THEN Same(PollError("Failed to insert poll options"))
        ELSE [Same(Ok(NoId)) EXCEPT
                !.options = OptionsAfterClear(c.session, c.poll)
                              \cup NewOptionRows(c.poll, ValidateOptions(c.options).val),
                !.votes = VotesAfterClear(c.session, c.poll)]
  IN CASE c.op = "createPoll" ->
            LET id == FreshIds(UsedPollIds, 1, 1)[1]
                row == PollRow(id, ValidateQuestion(c.question).val,
                               ValidateDescription(c.description).val, c.user, now,
                               ParseDate(c.expiresAt))
            IN IF CreatePollValidation(c, now) # ""
                 THEN Same(ValidationError(CreatePollValidation(c, now)))
               ELSE IF InsertPollError(c.session, row) # NoError
                 THEN Same(PollError("Failed to create poll"))
               ELSE [Same(Ok(id)) EXCEPT
                       !.polls = polls \cup {row},
                       !.options = options
                                     \cup NewOptionRows(id, ValidateOptions(c.options).val)]
       [] c.op = "castVote" ->
            LET row == VoteRow(c.poll, c.opt, c.voter)
            IN IF ~OptionInPoll(c.opt, c.poll)
                 THEN Same(ValidationError("Invalid option for this poll"))
               ELSE IF InsertVoteError(c.session, row) = UNIQUE_CONSTRAINT_VIOLATION
                 THEN Same(ValidationError("You have already voted on this poll"))
               ELSE IF InsertVoteError(c.session, row) # NoError
                 THEN Same(PollError("Failed to cast vote"))
               ELSE [Same(Ok(NoId)) EXCEPT !.votes = votes (+) SetToBag({row})]
       [] c.op = "deletePoll" ->
            IF owner.kind # "ok" THEN Same(owner)
            ELSE [res |-> Ok(NoId), polls |-> PollsAfterDelete(c.session, c.poll),
                  options |-> OptionsAfterPollDelete(c.session, c.poll),
                  votes |-> VotesAfterPollDelete(c.session, c.poll)]
       [] c.op = "updatePoll" -> IF owner.kind # "ok" THEN Same(owner) ELSE PollPart
       [] c.op = "updatePollOptions" ->
            IF owner.kind # "ok" THEN Same(owner) ELSE OptionsPart
       [] c.op = "updatePollComplete" ->
            IF owner.kind # "ok" THEN Same(owner)
            ELSE IF PollPart.res.kind # "ok" \/ ~OptionsGiven(c) THEN PollPart
            ELSE [OptionsPart EXCEPT !.polls = PollPart.polls]
       [] c.op = "getPollWithOptions" -> Same(getPollWithOptionsOutcome(c.poll, "none"))
       [] c.op = "hasUserVoted" -> Same(hasUserVotedOutcome(c.poll, c.voter, FALSE))
       [] c.op = "getUserPolls" -> Same(getUserPollsOutcome(c.user, "none"))

\* the exported functions of the first version of the library
Original(c) ==
  LET Same(res) == [res |-> res, polls |-> polls, options |-> options, votes |-> votes]
      found == \E r \in polls : r.id = c.poll
      mine == \E r \in polls : r.id = c.poll /\ r.created_by = c.user
      description == IF c.description = NullText \/ Trim(c.description) = <<>>
                       THEN NullText ELSE Trim(c.description)
      badDate == c.expiresAt # NullText /\ ParseDate(c.expiresAt) = NoTime
      labels == ValidOptionLabels(c.options)
      PollPart ==
        LET Updated(r) == [r EXCEPT !.question = Trim(c.question),
                                    !.description = description,
                                    !.expires_at = ParseDate(c.expiresAt)]
            seen == {r \in polls : r.id = c.poll /\ PollWritableBy(c.session, r)}
        IN IF badDate THEN Same(Refused("22007"))
           ELSE IF \E r \in seen : ~PollChecksHold(Updated(r))
             THEN Same(Refused(CHECK_VIOLATION))
           ELSE [Same(Ok(NoId)) EXCEPT
                   !.polls = (polls \ seen) \cup {Updated(r) : r \in seen}]
      OptionsPart ==
        LET cleared == [Same(Ok(NoId)) EXCEPT
                          !.options = OptionsAfterClear(c.session, c.poll),
                          !.votes = VotesAfterClear(c.session, c.poll)]
        IN IF ~c.hasOptions THEN Same([kind |-> "TypeError", msg |-> "", val |-> NoId])
           ELSE IF Len(labels) < 2
             THEN Same(PlainError("At least 2 options are required"))
           ELSE IF ~OptionWritableBy(c.session, c.poll)
             THEN Same(Refused(RLS_VIOLATION))
           ELSE IF Cardinality(Range(labels)) # Len(labels)
             THEN [cleared EXCEPT !.res = Refused(UNIQUE_CONSTRAINT_VIOLATION)]
           ELSE [cleared EXCEPT !.options = @ \cup NewOptionRows(c.poll, labels)]
  IN CASE c.op = "createPoll" ->
            LET id == FreshIds(UsedPollIds, 1, 1)[1]
                row == PollRow(id, Trim(c.question), description, c.user, now,
                               ParseDate(c.expiresAt))
                \* the rows carry no position
                rows == {[o EXCEPT !.position = -1] : o \in NewOptionRows(id, labels)}
            IN IF Len(c.options) < 2
                 THEN Same(PlainError("At least 2 options are required"))
               ELSE IF badDate THEN Same(Refused("22007"))
               ELSE IF InsertPollError(c.session, row) # NoError
                 THEN Same(Refused(InsertPollError(c.session, row)))
               ELSE IF Cardinality(Range(labels)) # Len(labels)
                 THEN [Same(Refused(UNIQUE_CONSTRAINT_VIOLATION)) EXCEPT
                         !.polls = polls \cup {row}]
               ELSE [Same(Ok(id)) EXCEPT !.polls = polls \cup {row},
                                         !.options = options \cup rows]
       [] c.op = "castVote" ->
            LET row == VoteRow(c.poll, c.opt, c.voter)
            IN IF InsertVoteError(c.session, row) # NoError
                 THEN Same(Refused(InsertVoteError(c.session, row)))
               ELSE [Same(Ok(NoId)) EXCEPT !.votes = votes (+) SetToBag({row})]
       [] c.op = "deletePoll" ->
            IF ~found THEN Same(Refused(POLL_NOT_FOUND))
            ELSE IF ~mine THEN Same(PlainError("You can only delete your own polls"))
            ELSE [res |-> Ok(NoId), polls |-> PollsAfterDelete(c.session, c.poll),
                  options |-> OptionsAfterPollDelete(c.session, c.poll),
                  votes |-> VotesAfterPollDelete(c.session, c.poll)]
       [] c.op = "updatePoll" ->
            IF ~found THEN Same(Refused(POLL_NOT_FOUND))
            ELSE IF ~mine THEN Same(PlainError("You can only edit your own polls"))
            ELSE PollPart
       [] c.op = "updatePollOptions" ->
            IF ~found THEN Same(Refused(POLL_NOT_FOUND))
            ELSE IF ~mine THEN Same(PlainError("You can only edit your own polls"))
            ELSE OptionsPart
       [] c.op = "updatePollComplete" ->
            IF ~found THEN Same(Refused(POLL_NOT_FOUND))
            ELSE IF ~mine THEN Same(PlainError("You can only edit your own polls"))
            ELSE IF PollPart.res.kind # "ok" THEN PollPart
            ELSE [OptionsPart EXCEPT !.polls = PollPart.polls]
       [] c.op = "getPollWithOptions" -> Same(Ok(getPollWithOptions(c.poll)))
       [] c.op = "hasUserVoted" -> Same(hasUserVotedOutcome(c.poll, c.voter, FALSE))
       [] c.op = "getUserPolls" -> Same(getUserPollsOutcome(c.user, "none"))

\* a client calls a function of the refactored library
CallBothVersions ==
  /\ calls < MaxCalls
  /\ \E c \in CompatCalls :
       /\ c.op = "createPoll" => Cardinality(polls) < MaxPolls
       /\ c.op = "castVote" => BagCardinality(votes) < MaxVotes
       /\ polls' = Refactored(c).polls
       /\ options' = Refactored(c).options
       /\ votes' = Refactored(c).votes
       /\ last' = [c EXCEPT !.res = Refactored(c).res]
  /\ calls' = calls + 1
  /\ UNCHANGED <<now, faults, maxInFlight, pc, call, form>>

\* ------------------------------------------------------------------------
\* The suggestion service (lib/actions/poll-suggestions.ts) and the new-poll
\* form (NewPollClient).  A message of an error is the sequence of its words,
\* so that message.includes(word) is computed.
\* ------------------------------------------------------------------------
ToLowerCase(s) ==
  [i \in 1..Len(s) |-> CASE s[i] = "A" -> "a" [] s[i] = "B" -> "b"
                         [] s[i] = "C" -> "c" [] s[i] = "D" -> "d"
                         [] s[i] = "Q" -> "q" [] OTHER -> s[i]]

\* replace(/\?$/, '')
WithoutQuestionMark(s) ==
  IF s # <<>> /\ s[Len(s)] = "?" THEN SubSeq(s, 1, Len(s) - 1) ELSE s

\* what the language-model API does with one request: no key is configured,
\* the client library throws, the 30 s timer wins the race, or a text comes
\* back, which is JSON or not
ServiceReplies ==
  {[kind |-> "noKey"], [kind |-> "timeout"]}
  \cup {[kind |-> "error", words |-> w] :
          w \in {<<"429", "quota", "exceeded">>, <<"billing", "disabled">>,
                 <<"fetch failed">>, <<"network", "unreachable">>,
                 <<"500", "internal">>}}
  \cup {[kind |-> "text", json |-> FALSE, fields |-> FALSE,
         questionSuggestions |-> <<>>, optionSuggestions |-> <<>>],
        [kind |-> "text", json |-> TRUE, fields |-> FALSE,
         questionSuggestions |-> <<>>, optionSuggestions |-> <<>>],
        [kind |-> "text", json |-> TRUE, fields |-> TRUE,
         questionSuggestions |-> <<>>, optionSuggestions |-> << <<"C">>, <<"D">> >>],
        [kind |-> "text", json |-> TRUE, fields |-> TRUE,
         questionSuggestions |-> << <<"Q", "?">> >>,
         optionSuggestions |-> << << <<"C">>, <<"D">> >>, << <<" ", "a">>, <<"B">> >> >>],
        [kind |-> "text", json |-> TRUE, fields |-> TRUE,
         questionSuggestions |-> << <<"Q", "?">> >>,
         optionSuggestions |-> << << <<"C">> >>, <<>> >>]}

\* the error the try block of generatePollSuggestions ends with, as the words
\* of its message; <<>> when it returns the response of the service
SuggestionFailure(data, reply) ==
  IF reply.kind = "noKey" THEN <<"AI", "service", "is", "not", "configured">>
  ELSE IF data.question = <<>> \/ data.options = <<>>
    THEN <<"Question", "and", "options", "are", "required">>
  ELSE IF reply.kind = "error" THEN reply.words
  ELSE IF reply.kind = "timeout" THEN <<"Request", "timeout", "after", "30", "seconds">>
  ELSE IF ~reply.json THEN <<"No", "JSON", "found", "in", "AI", "response">>
  ELSE IF ~reply.fields
    THEN <<"Invalid", "response", "format", "from", "AI", "service">>
  ELSE IF reply.questionSuggestions = <<>>
    THEN <<"No", "question", "suggestions", "received", "from", "AI", "service">>
  ELSE IF reply.optionSuggestions = <<>>
    THEN <<"No", "option", "suggestions", "received", "from", "AI", "service">>
  ELSE <<>>

fallbackResponse(data) ==
  LET about == ToLowerCase(WithoutQuestionMark(data.question))
      Choice(i) == <<"Choice ", <<"A", "B", "C", "D">>[i], ": ">> \o data.options[i]
  IN [questionSuggestions |->
       IF data.question # <<>>
         THEN << <<"What is your preference regarding ">> \o about \o <<"?">>,
                 <<"How would you respond to: ">>
                   \o WithoutQuestionMark(data.question) \o <<"?">>,
                 <<"Which option best represents your view on ">> \o about \o <<"?">> >>
         ELSE << <<"What is your preference on this topic?">>,
                 <<"How would you respond to this question?">>,
                 <<"Which option best represents your view?">> >>,
      optionSuggestions |->
       IF Len(data.options) > 0
         THEN <<data.options, [i \in 1..Len(data.options) |-> Choice(i)]>>
         ELSE << << <<"Option 1">>, <<"Option 2">> >>,
                 << <<"Choice A">>, <<"Choice B">> >> >>]

\* a variant that raises every failure of the service
generatePollSuggestionsRaising(data, reply) ==
  IF SuggestionFailure(data, reply) = <<>>
    THEN Ok([questionSuggestions |-> reply.questionSuggestions,
                optionSuggestions |-> reply.optionSuggestions])
  ELSE PlainError("AI service request failed")

generatePollSuggestions(data, reply) ==
  LET words == Range(SuggestionFailure(data, reply))
  IN IF words = {}
       THEN Ok([questionSuggestions |-> reply.questionSuggestions,
                optionSuggestions |-> reply.optionSuggestions])
     ELSE IF "quota" \in words \/ "billing" \in words \/ "exceeded" \in words
       THEN PlainError("AI service quota exceeded. Please try again later.")
     ELSE IF "fetch failed" \in words \/ "network" \in words
       THEN PlainError("Network error connecting to AI service. Please try again.")
     ELSE IF "timeout" \in words
       THEN PlainError("AI service request timed out. Please try again.")
     ELSE Ok(fallbackResponse(data))

\* one action of the user on the form is handled
FormStep(op, opt, labels, res, next) ==
  /\ calls < MaxFormSteps
  /\ calls' = calls + 1
  /\ form' = next
  /\ last' = [NoCall EXCEPT !.op = op, !.opt = opt, !.question = form.title,
                            !.options = labels, !.res = res]
  /\ UNCHANGED <<polls, options, votes, now, faults, maxInFlight, pc, call>>

setTitle ==
  \E title \in {<<>>, <<" ">>, <<"Q", "?">>} :
    /\ title # form.title
    /\ FormStep("setTitle", NoId, <<>>, Ok(NoId), [form EXCEPT !.title = title])

fetchSuggestions ==
  IF Trim(form.title) = <<>>
    THEN FormStep("fetchSuggestions", NoId, <<>>, Pending,
                  [form EXCEPT !.error = "Please enter a question first."])
  ELSE \E reply \in ServiceReplies :
         LET data == [question |-> form.title, options |-> SelectSeq(form.options, LAMBDA l : Trim(l) # <<>>)]
             res == generatePollSuggestions(data, reply)
         IN /\ calls < MaxFormSteps
            /\ calls' = calls + 1
            /\ form' = IF res.kind = "ok"
                         THEN [form EXCEPT !.error = "", !.suggestions = <<res.val>>]
                       ELSE [form EXCEPT !.error = res.msg,
                                         !.suggestions = <<>>]
            /\ last' = [NoCall EXCEPT !.op = "generatePollSuggestions",
                                      !.question = data.question,
                                      !.options = data.options,
                                      !.service = reply, !.res = res]
            /\ UNCHANGED <<polls, options, votes, now, faults, maxInFlight, pc, call>>

applyQuestionSuggestion ==
  /\ form.suggestions # <<>>
  /\ \E i \in 1..Len(form.suggestions[1].questionSuggestions) :
       FormStep("applyQuestionSuggestion", i, <<>>, Ok(NoId),
                [form EXCEPT !.title = form.suggestions[1].questionSuggestions[i],
                             !.suggestions = <<>>])

\* the options after applyOptionsSuggestion(suggestedOptions, shouldAppend)
SuggestedOptions(prevOptions, suggestedOptions, useAppend) ==
  LET existingLabels == {ToLowerCase(Trim(l)) : l \in Range(prevOptions)} \ {<<>>}
      uniqueNewOptions ==
        SelectSeq(suggestedOptions,
                  LAMBDA l : /\ Trim(l) # <<>>
                             /\ ToLowerCase(Trim(l)) \notin existingLabels)
  IN IF useAppend
       THEN prevOptions \o [i \in 1..Len(uniqueNewOptions) |-> Trim(uniqueNewOptions[i])]
     ELSE [i \in 1..Len(suggestedOptions) |-> Trim(suggestedOptions[i])]

applyOptionsSuggestion ==
  /\ form.suggestions # <<>>
  /\ \E i \in 1..Len(form.suggestions[1].optionSuggestions), useAppend \in BOOLEAN :
       LET suggestedOptions == form.suggestions[1].optionSuggestions[i]
           next == SuggestedOptions(form.options, suggestedOptions, useAppend)
       IN /\ Len(next) <= MaxDraft + 2
          /\ FormStep(IF useAppend THEN "appendOptionsSuggestion"
                                   ELSE "replaceOptionsSuggestion",
                      i, suggestedOptions, Ok(NoId),
                      [form EXCEPT !.options = next, !.suggestions = <<>>])

addOption ==
  /\ Len(form.options) < MaxDraft
  /\ FormStep("addOption", NoId, <<>>, Ok(NoId),
              [form EXCEPT !.options = Append(@, <<>>)])

updateOption ==
  \E i \in 1..Len(form.options), label \in {<<>>, <<"A">>, <<"a", " ">>, <<"B">>} :
    /\ label # form.options[i]
    /\ FormStep("updateOption", i, <<label>>, Ok(NoId),
                [form EXCEPT !.options[i] = label])

\* a variant without the minimum of two options
removeOptionAlways(prev, i) == [j \in 1..(Len(prev) - 1) |-> IF j < i THEN prev[j] ELSE prev[j + 1]]

\* prev.length <= 2 ? prev : prev.filter((o) => o.id !== id)
removeOption(prev, i) ==
  IF Len(prev) <= 2 THEN prev
  ELSE [j \in 1..(Len(prev) - 1) |-> IF j < i THEN prev[j] ELSE prev[j + 1]]

removeOptionClick ==
  \E i \in 1..Len(form.options) :
    FormStep("removeOption", i, <<>>, Ok(NoId),
             [form EXCEPT !.options = removeOption(@, i)])

\* ------------------------------------------------------------------------
\* Specifications
\* ------------------------------------------------------------------------
Next ==
  \/ Tick
  \/ \E p \in Procs : createPoll(p)
  \/ \E p \in Procs : createPollInsertPoll(p)
  \/ \E p \in Procs : createPollInsertOptions(p)
  \/ \E p \in Procs : castVote(p)
  \/ \E p \in Procs : castVoteInsert(p)
  \/ \E p \in Procs : deletePoll(p)
  \/ \E p \in Procs : deletePollDelete(p)
  \/ \E p \in Procs : updatePoll(p)
  \/ \E p \in Procs : updatePollAssert(p)
  \/ \E p \in Procs : updatePollWrite(p)
  \/ \E p \in Procs : updatePollOptions(p)
  \/ \E p \in Procs : updatePollOptionsAssert(p)
  \/ \E p \in Procs : clearPollOptions(p)
  \/ \E p \in Procs : updatePollOptionsInsert(p)
  \/ \E p \in Procs : updatePollComplete(p)
  \/ \E p \in Procs : getPollWithOptionsCall(p)
  \/ \E p \in Procs : hasUserVoted(p)
  \/ \E p \in Procs : getUserPolls(p)

\* clients call concurrently
Spec == Init /\ [][Next]_vars

\* one call at a time
SeqSpec == InitSeq /\ [][Next]_vars

\* one call at a time against a store whose calls may fail for external
\* reasons
FaultSpec == InitFault /\ [][Next]_vars

\* clients that send statements to the store without the library
StoreSpec == Init /\ [][StoreNext]_vars

\* a poll of u1 with the options A and B, as createPoll leaves it
InitReplace ==
  /\ polls = {PollRow(1, QuestionOk, NullText, "u1", 0, NoTime)}
  /\ options = {OptionRow(1, 1, <<"A">>, 0), OptionRow(2, 1, <<"B">>, 1)}
  /\ votes = EmptyBag
  /\ now = 0
  /\ faults = 0
  /\ maxInFlight = NumProcs
  /\ calls = 0
  /\ pc = [p \in Procs |-> "idle"]
  /\ call = [p \in Procs |-> NoCall]
  /\ last = NoOutcome
  /\ form = NewForm

\* concurrent updatePollOptions calls on a stored poll
ReplaceSpec ==
  InitReplace /\ [][\E p \in Procs : \/ updatePollOptions(p)
                                     \/ clearPollOptions(p)
                                     \/ updatePollOptionsInsert(p)]_vars

\* calls of the refactored library, one after the other, each compared with
\* the first version
CompatSpec == Init /\ [][Tick \/ CallBothVersions]_vars

\* the new-poll form and the suggestion service it calls
FormSpec ==
  Init /\ [][\/ setTitle
             \/ fetchSuggestions
             \/ applyQuestionSuggestion
             \/ applyOptionsSuggestion
             \/ addOption
             \/ updateOption
             \/ removeOptionClick]_vars

TypeOK ==
  /\ \A r \in polls : r.created_by \in Users
  /\ last.res.kind \in
       {"pending", "ok", "refused", "Error", "TypeError", "ValidationError", "UnauthorizedError", "NotFoundError",
        "PollError"}

\* ------------------------------------------------------------------------
\* Properties
\* ------------------------------------------------------------------------
\* C1: in every reachable state, concurrent castVote calls of one voter
\* included, there is at most one vote row per poll and non-null voter.
OneVotePerVoterPerPoll ==
  \A v \in VoteRows :
    v.voter_id # NoVoter =>
      BagCardinality(VotesWhere(LAMBDA x : x.poll_id = v.poll_id
                                             /\ x.voter_id = v.voter_id)) <= 1

\* two castVote calls of one voter on one poll overlap: both passed the
\* lookup, the first has inserted its row, the second is about to insert
ConcurrentDoubleVote ==
  /\ last.op = "castVote"
  /\ last.res.kind = "ok"
  /\ last.voter # NoVoter
  /\ \E v \in VoteRows : v.poll_id = last.poll /\ v.voter_id = last.voter
  /\ \E p \in Procs : /\ pc[p] = "cv_insert"
                      /\ call[p].poll = last.poll
                      /\ call[p].voter = last.voter
                      /\ call[p].session = last.session

\* C2: in every reachable state every vote row references a poll that exists
\* and an option that exists and belongs to that poll.
VotesReferenceOptionOfPoll ==
  \A v \in VoteRows :
    /\ \E r \in polls : r.id = v.poll_id
    /\ \E o \in options : o.id = v.option_id /\ o.poll_id = v.poll_id

\* a vote whose option was replaced between the lookup and the insert was
\* refused by the store, while the poll holds its new options
VoteOnReplacedOptionRefused ==
  /\ last.op = "castVote"
  /\ last.session = Anon /\ last.voter = NoVoter
  /\ last.res = PollError("Failed to cast vote")
  /\ \E r \in polls : r.id = last.poll
  /\ \E o \in options : o.poll_id = last.poll
  /\ ~\E o \in options : o.id = last.opt /\ o.poll_id = last.poll

\* C3: a castVote whose optionId is not an option of its pollId fails and
\* adds no vote row, whoever votes.
CastVoteForeignOptionFails ==
  [][(/\ last'.op = "castVote"
      /\ ~\E o \in options : o.id = last'.opt /\ o.poll_id = last'.poll)
       => (last'.res.kind # "ok" /\ votes' = votes)]_vars

\* a signed-in voter named a poll and an option of another poll and was refused
ForeignOptionRefused ==
  /\ last.op = "castVote"
  /\ last.session = "u2" /\ last.voter = "u2"
  /\ last.res = ValidationError("Invalid option for this poll")
  /\ \E r \in polls : r.id = last.poll
  /\ \E o \in options : o.id = last.opt /\ o.poll_id # last.poll
  /\ votes = EmptyBag

AnonymousVoteAccepted ==
  [][(/\ last'.op = "castVote"
      /\ last'.voter = NoVoter
      /\ last'.session = Anon
      /\ \E o \in options : o.id = last'.opt /\ o.poll_id = last'.poll)
       => (/\ last'.res.kind = "ok"
           /\ votes' = votes (+) SetToBag({[poll_id |-> last'.poll,
                                            option_id |-> last'.opt,
                                            voter_id |-> NoVoter]}))]_vars

\* a visitor voted for an option that had a vote without voter already
AnonymousVoteRepeated ==
  /\ last.op = "castVote"
  /\ last.voter = NoVoter
  /\ last.session = Anon
  /\ last.res.kind = "ok"
  /\ \E v \in VoteRows : /\ v.poll_id = last.poll
                         /\ v.option_id = last.opt
                         /\ v.voter_id = NoVoter
                         /\ votes[v] >= 2

\* C6: a deletePoll whose userId is not the owner of the poll fails with
\* UnauthorizedError and leaves polls, options and votes as they were.
DeleteByNonOwnerRefused ==
  [][(/\ last'.op = "deletePoll"
      /\ \E r \in polls : r.id = last'.poll /\ r.created_by # last'.user)
       => (/\ last'.res.kind = "UnauthorizedError"
           /\ polls' = polls /\ options' = options /\ votes' = votes)]_vars

\* another user was refused the delete of a poll that has options and a vote
NonOwnerDeleteRefused ==
  /\ last.op = "deletePoll"
  /\ last.session = last.user
  /\ last.res = UnauthorizedError("You can only modify your own polls")
  /\ \E r \in polls : r.id = last.poll /\ r.created_by # last.user
  /\ \E o \in options : o.poll_id = last.poll
  /\ \E v \in VoteRows : v.poll_id = last.poll

\* C7: after a deletePoll of the owner of the poll returned normally, no
\* poll, option or vote row of that poll id remains.
DeleteByOwnerRemovesAll ==
  [][(/\ last'.op = "deletePoll"
      /\ last'.res.kind = "ok")
       => (/\ ~\E r \in polls' : r.id = last'.poll
           /\ ~\E o \in options' : o.poll_id = last'.poll
           /\ ~\E v \in DOMAIN votes' : v.poll_id = last'.poll)]_vars

\* C7, for a call made in the session of the owner: after the deletePoll
\* returned normally, no poll, option or vote row of that poll id remains.
DeleteInOwnerSessionRemovesAll ==
  [][(/\ last'.op = "deletePoll"
      /\ last'.res.kind = "ok"
      /\ last'.session = last'.user)
       => (/\ ~\E r \in polls' : r.id = last'.poll
           /\ ~\E o \in options' : o.poll_id = last'.poll
           /\ ~\E v \in DOMAIN votes' : v.poll_id = last'.poll)]_vars

\* a deletePoll with the id of the owner, made without the owner's session,
\* returned normally and the poll, its options and its vote are still there
DeleteReturnedPollRemains ==
  /\ last.op = "deletePoll"
  /\ last.res.kind = "ok"
  /\ last.session = Anon
  /\ \E r \in polls : r.id = last.poll /\ r.created_by = last.user
  /\ \E o \in options : o.poll_id = last.poll
  /\ \E v \in VoteRows : v.poll_id = last.poll

\* C8: after an updatePollOptions returned normally, the labels of the
\* poll's options are the trimmed non-empty labels of the call, one option
\* each, and the poll has no vote.
OptionsReplaced ==
  [][(/\ last'.op = "updatePollOptions"
      /\ last'.res.kind = "ok")
       => LET rows == {o \in options' : o.poll_id = last'.poll}
              labels == {Trim(last'.options[i]) : i \in 1..Len(last'.options)} \ {<<>>}
          IN /\ {o.label : o \in rows} = labels
             /\ Cardinality(rows) = Cardinality(labels)
             /\ ~\E v \in DOMAIN votes' : v.poll_id = last'.poll]_vars

\* the options A and B of a poll that had a vote were replaced by " A ", ""
\* and "B": the poll has the options A and B and no vote
SameLabelsReplaced ==
  /\ last.op = "updatePollOptions"
  /\ last.res.kind = "ok"
  /\ last.options = << <<" ", "A", " ">>, <<>>, <<"B">> >>
  /\ last.goneLabels = {<<"A">>, <<"B">>}
  /\ last.goneVotes >= 1
  /\ {o.label : o \in {x \in options : x.poll_id = last.poll}} = {<<"A">>, <<"B">>}
  /\ ~\E v \in VoteRows : v.poll_id = last.poll

\* C9: a createPoll, updatePoll, updatePollOptions or updatePollComplete
\* that fails with a ValidationError has made no write.
ValidationErrorWritesNothing ==
  (/\ last.op \in {"createPoll", "updatePoll", "updatePollOptions", "updatePollComplete"}
   /\ last.res.kind = "ValidationError")
    => ~last.wrote

\* C9, for the calls other than an updatePollComplete with options: a
\* ValidationError comes with no write.
ValidationErrorBeforeWrite ==
  (/\ last.op \in {"createPoll", "updatePoll", "updatePollOptions", "updatePollComplete"}
   /\ ~(last.op = "updatePollComplete" /\ last.hasOptions)
   /\ last.res.kind = "ValidationError")
    => ~last.wrote

\* an updatePollComplete with valid poll fields and a single option failed
\* with a ValidationError after it had rewritten the question of the poll
PollRewrittenBeforeOptionsRefused ==
  /\ last.op = "updatePollComplete"
  /\ last.res = ValidationError("At least 2 options are required")
  /\ last.wrote
  /\ \E r \in polls : r.id = last.poll /\ r.question = <<"a", "b", "c", "d">>

\* C10: after a createPoll with N labels that are not blank returned
\* normally, getPollWithOptions of the returned id reports N options, each
\* with vote count 0.
CreatedPollHasItsOptions ==
  [][\A id \in 1..(MaxPolls + NumProcs + 1) :
       (/\ last'.op = "createPoll"
        /\ last'.res.kind = "ok"
        /\ last'.res.val = id)
         => LET N == Cardinality({i \in 1..Len(last'.options) :
                                    \E j \in 1..Len(last'.options[i]) :
                                      last'.options[i][j] # " "})
            IN \A got \in {getPollWithOptions(id)'} :
                 /\ Len(got) = 1
                 /\ Len(got[1].options) = N
                 /\ \A i \in 1..N : got[1].options[i].voteCount = 0]_vars

\* a poll of 20 options was created next to a poll of 2 options
TwentyOptionsCreated ==
  /\ last.op = "createPoll"
  /\ last.res.kind = "ok"
  /\ Len(last.options) = OPTIONS_MAX_COUNT
  /\ Len(getPollWithOptions(last.res.val)[1].options) = OPTIONS_MAX_COUNT
  /\ \E r \in polls : Len(getPollWithOptions(r.id)[1].options) = OPTIONS_MIN_COUNT

\* C11: a createPoll whose labels, blank ones not counted, number fewer than
\* 2 or more than 20 fails with a ValidationError.
CreateWithBadOptionCountFails ==
  [][(/\ last'.op = "createPoll"
      /\ LET N == Cardinality({i \in 1..Len(last'.options) :
                                 \E j \in 1..Len(last'.options[i]) :
                                   last'.options[i][j] # " "})
         IN N < 2 \/ N > 20)
       => (/\ last'.res.kind = "ValidationError"
           /\ calls' = calls + 1)]_vars

\* a createPoll with 21 labels was refused in the step it was made, while a
\* poll exists
TwentyOneOptionsRefused ==
  /\ last.op = "createPoll"
  /\ Len(last.options) = 21
  /\ last.res = ValidationError("Cannot have more than 20 options")
  /\ polls # {}

\* C12: a createPoll with two labels that are not blank and equal after
\* trimming fails with a ValidationError.
CreateWithDuplicateLabelsFails ==
  [][(/\ last'.op = "createPoll"
      /\ \E i, j \in 1..Len(last'.options) :
           /\ i # j
           /\ Trim(last'.options[i]) = Trim(last'.options[j])
           /\ Trim(last'.options[i]) # <<>>)
       => (/\ last'.res.kind = "ValidationError"
           /\ calls' = calls + 1)]_vars

\* a createPoll with the labels "A" and "A " was refused
DuplicateLabelsRefused ==
  /\ last.op = "createPoll"
  /\ last.options = << <<"A">>, <<"A", " ">> >>
  /\ last.res = ValidationError("Duplicate options are not allowed")
  /\ ~last.wrote

\* C13: a createPoll made with an expiresAt that is a date not after the
\* current time returns a ValidationError in the step it is made, and that
\* step writes no poll and no option.
CreateWithPastExpiryFails ==
  [][\A p \in Procs :
       (/\ calls' = calls + 1
        /\ ~Busy(p)
        /\ \/ (pc'[p] = "cp_poll" /\ ParseDate(call'[p].expiresAt) # NoTime
                 /\ ParseDate(call'[p].expiresAt) <= now)
           \/ (pc'[p] = "idle" /\ last'.op = "createPoll"
                 /\ ParseDate(last'.expiresAt) # NoTime
                 /\ ParseDate(last'.expiresAt) <= now))
         => (/\ last'.op = "createPoll"
             /\ last'.res.kind = "ValidationError"
             /\ polls' = polls /\ options' = options)]_vars

\* a createPoll whose expiresAt is the current time was refused
ExpiryNowRefused ==
  /\ last.op = "createPoll"
  /\ last.expiresAt = <<"1">>
  /\ now = 1
  /\ last.res = ValidationError("Expiration date must be in the future")
  /\ ~last.wrote

GetPollAbsentReturned ==
  /\ last.op = "getPollWithOptions"
  /\ last.res = Ok(<<>>)
  /\ polls # {}
  /\ faults = MaxFaults

\* C15: when no call is in progress, getPollWithOptions reports for every
\* poll each of its options once, with a vote count equal to the number of
\* vote rows that reference the option; a call that returned a poll in the
\* latest step reported exactly that.
VoteCountsAreRowCounts ==
  LET Rows(id) == {v \in DOMAIN votes : v.option_id = id}
      Count(id) == IF Rows(id) = {} THEN 0
                   ELSE BagCardinality([v \in Rows(id) |-> votes[v]])
      Exact(pollId, reported) ==
        /\ Len(reported) = Cardinality({o \in options : o.poll_id = pollId})
        /\ \A o \in options :
             o.poll_id = pollId
               => \E i \in 1..Len(reported) :
                    reported[i].id = o.id /\ reported[i].voteCount = Count(o.id)
  IN (\A p \in Procs : ~Busy(p))
       => /\ \A r \in polls :
               \A got \in {getPollWithOptionsOutcome(r.id, "none")} :
                 got.kind = "ok" /\ Len(got.val) = 1
                   /\ Exact(r.id, got.val[1].options)
          /\ (last.op = "getPollWithOptions" /\ last.res.kind = "ok"
                /\ last.res.val # <<>>)
               => Exact(last.poll, last.res.val[1].options)

\* a read returned the count 1 for the first option of a poll and 0 for the
\* second
OneVoteReadForFirstOption ==
  /\ last.op = "getPollWithOptions"
  /\ last.res.kind = "ok"
  /\ last.res.val # <<>>
  /\ Len(last.res.val[1].options) = 2
  /\ last.res.val[1].options[1].voteCount = 1
  /\ last.res.val[1].options[2].voteCount = 0

\* C16: hasUserVoted returns true when a vote row with the poll and the
\* voter exists, returns false and does not throw when none exists, and
\* throws when its select fails with an error other than "no row".
HasUserVotedTellsVoteRow ==
  [][(last'.op = "hasUserVoted")
       => /\ (faults' = faults)
               => last'.res = Ok(\E v \in DOMAIN votes :
                                   v.poll_id = last'.poll /\ v.voter_id = last'.voter)
          /\ (faults' < faults) => last'.res.kind = "PollError"]_vars

\* the call returned true for the voter of a poll that has a vote
HasUserVotedTrue ==
  /\ last.op = "hasUserVoted"
  /\ last.res = Ok(TRUE)
  /\ \E v \in DOMAIN votes : v.poll_id = last.poll /\ v.voter_id = last.voter

\* the call returned false for a user without a vote on a poll that another
\* voter voted on
HasUserVotedFalse ==
  /\ last.op = "hasUserVoted"
  /\ last.res = Ok(FALSE)
  /\ \E v \in DOMAIN votes : v.poll_id = last.poll /\ v.voter_id # last.voter

\* C17: a deletePoll, updatePoll or updatePollOptions made for an id that no
\* poll has fails with NotFoundError; made for a poll of another user than
\* userId, it fails with UnauthorizedError; in neither case does the call go
\* on to a write.
MissingPollIsNotFound ==
  [][LET OwnerOps == {"deletePoll", "updatePoll", "updatePollOptions"}
     IN /\ (calls' = calls + 1 /\ last'.op \in OwnerOps)
             => /\ (~\E r \in polls : r.id = last'.poll)
                     => last'.res.kind = "NotFoundError"
                /\ (\E r \in polls : r.id = last'.poll /\ r.created_by # last'.user)
                     => last'.res.kind = "UnauthorizedError"
        /\ \A p \in Procs :
             (~Busy(p) /\ pc'[p] # "idle" /\ call'[p].op \in OwnerOps)
               => \E r \in polls : r.id = call'[p].poll
                                     /\ r.created_by = call'[p].user]_vars

\* an updatePollOptions for an id that no poll has returned NotFoundError
\* while a poll of the same user exists
UpdateOptionsOfMissingPollNotFound ==
  /\ last.op = "updatePollOptions"
  /\ last.res = NotFoundError("Poll not found")
  /\ \E r \in polls : r.created_by = last.user /\ r.id # last.poll

\* C18: no step of an updatePollComplete called without options changes an
\* option or a vote or enters updatePollOptions; of the polls it changes at
\* most the question, the description and the expiration of the poll it was
\* called for.
UpdateCompleteWithoutOptionsKeepsOptions ==
  [][\A p \in Procs :
       (/\ call[p].op = "updatePollComplete"
        /\ ~call[p].hasOptions
        /\ pc'[p] # pc[p])
         => /\ options' = options
            /\ votes' = votes
            /\ pc'[p] \notin {"uo_assert", "uo_clear", "uo_insert"}
            /\ {r.id : r \in polls'} = {r.id : r \in polls}
            /\ \A r \in polls : \E n \in polls' :
                 /\ n.id = r.id
                 /\ n.created_by = r.created_by
                 /\ n.created_at = r.created_at
                 /\ r.id # call[p].poll => n = r]_vars

\* an updatePollComplete without options rewrote a poll that has options and a
\* vote
FieldsUpdatedOptionsKept ==
  /\ last.op = "updatePollComplete"
  /\ ~last.hasOptions
  /\ last.res.kind = "ok"
  /\ last.wrote
  /\ \E o \in options : o.poll_id = last.poll
  /\ \E v \in DOMAIN votes : v.poll_id = last.poll

\* C19: whatever statement whichever client sends, a vote row stays as it is
\* unless the statement deletes its poll or its option; an update or a delete
\* of votes changes no vote, and votes are added one row at a time.
VotesOnlyGoWithPollOrOption ==
  [][/\ \A v \in DOMAIN votes :
          \/ (v \in DOMAIN votes' /\ votes'[v] >= votes[v])
          \/ (/\ last'.op \in {"delete polls", "delete poll_options"}
              /\ \/ ~\E r \in polls' : r.id = v.poll_id
                 \/ ~\E o \in options' : o.id = v.option_id /\ o.poll_id = v.poll_id)
     /\ last'.op \in {"update votes", "delete votes"} => votes' = votes
     /\ BagCardinality(votes') > BagCardinality(votes)
          => (/\ last'.op = "insert votes"
              /\ votes' = votes (+) SetToBag({VoteRow(last'.poll, last'.opt,
                                                       last'.voter)}))]_vars

\* a voter sent a delete of the own vote and the vote is still there
OwnVoteDeleteChangedNothing ==
  /\ last.op = "delete votes"
  /\ last.session = last.voter
  /\ last.session # Anon
  /\ ~last.wrote
  /\ VoteRow(last.poll, last.opt, last.voter) \in DOMAIN votes

\* C20: a statement that adds, changes or removes a poll row was sent in the
\* session of the user who owns the row, before and after; one that adds,
\* changes or removes an option row, other than by the delete of its poll, was
\* sent in the session of the owner of the poll the row belongs to, before and
\* after; the owner of a poll never changes.
OnlyOwnerWritesPollAndOptions ==
  [][/\ \A n \in polls' \ polls : last'.session # Anon /\ n.created_by = last'.session
     /\ \A r \in polls \ polls' : last'.session # Anon /\ r.created_by = last'.session
     /\ \A r \in polls : \A n \in polls' : n.id = r.id => n.created_by = r.created_by
     /\ \A n \in options' \ options :
          \E r \in polls : /\ r.id = n.poll_id
                           /\ last'.session # Anon
                           /\ r.created_by = last'.session
     /\ \A o \in options \ options' :
          \E r \in polls : /\ r.id = o.poll_id
                           /\ last'.session # Anon
                           /\ r.created_by = last'.session]_vars

\* an authenticated user sent an update of the poll of another user, which has
\* an option, and no row changed
UpdateByOtherUserChangedNothing ==
  /\ last.op = "update polls"
  /\ last.session # Anon
  /\ ~last.wrote
  /\ last.res.kind = "ok"
  /\ \E r \in polls : r.id = last.poll /\ r.created_by # last.session
  /\ \E o \in options : o.poll_id = last.poll

\* the owner of a poll sent an update that hands the poll to another user and
\* the store refused it
OwnerChangeRefused ==
  /\ last.op = "update polls"
  /\ last.res = Refused(RLS_VIOLATION)
  /\ \E r \in polls : r.id = last.poll /\ r.created_by = last.session

\* C21: whatever statement whichever client sends, a vote row is added only
\* with the session's user as voter when the session is authenticated, and
\* without a voter when it is anonymous; an insert of any other vote is
\* refused and adds nothing.
VoteVoterIsPrincipal ==
  [][/\ \A v \in DOMAIN votes' :
          (v \notin DOMAIN votes \/ votes'[v] > votes[v])
            => v.voter_id = (IF last'.session = Anon THEN NoVoter ELSE last'.session)
     /\ (/\ last'.op = "insert votes"
         /\ last'.voter # (IF last'.session = Anon THEN NoVoter ELSE last'.session))
          => (last'.res = Refused(RLS_VIOLATION) /\ votes' = votes)]_vars

\* an authenticated user sent a vote in the name of another user, who has no
\* vote on the poll, and the store refused it
VoteInOthersNameRefused ==
  /\ last.op = "insert votes"
  /\ last.session \in Users
  /\ last.voter \in Users \ {last.session}
  /\ last.res = Refused(RLS_VIOLATION)
  /\ \E o \in options : o.id = last.opt /\ o.poll_id = last.poll
  /\ ~\E v \in DOMAIN votes : v.poll_id = last.poll /\ v.voter_id = last.voter

\* an authenticated user sent a vote without a voter and the store refused it
VoterlessVoteOfUserRefused ==
  /\ last.op = "insert votes"
  /\ last.session \in Users
  /\ last.voter = NoVoter
  /\ last.res = Refused(RLS_VIOLATION)

\* C22: castVote throws "Invalid option for this poll" only when the option
\* is not one of the poll, "You have already voted on this poll" only when
\* the voter has a vote on the poll, and a storage error whenever a store
\* call of it failed for another reason.
CastVoteErrorsTellTheCause ==
  [][(last'.op = "castVote")
       => /\ (last'.res = ValidationError("Invalid option for this poll"))
               => ~\E o \in options : o.id = last'.opt /\ o.poll_id = last'.poll
          /\ (last'.res = ValidationError("You have already voted on this poll"))
               => \E v \in DOMAIN votes :
                    v.poll_id = last'.poll /\ v.voter_id = last'.voter
          /\ (faults' < faults) => last'.res.kind = "PollError"]_vars

\* the same, a failure of the lookup of the option left aside: the errors of
\* the insert tell their cause
CastVoteInsertErrorsTellTheCause ==
  [][(last'.op = "castVote")
       => /\ (faults' = faults
                /\ last'.res = ValidationError("Invalid option for this poll"))
               => ~\E o \in options : o.id = last'.opt /\ o.poll_id = last'.poll
          /\ (last'.res = ValidationError("You have already voted on this poll"))
               => (/\ faults' = faults
                   /\ last'.voter # NoVoter
                   /\ \E v \in DOMAIN votes :
                        v.poll_id = last'.poll /\ v.voter_id = last'.voter)
          /\ (faults' < faults /\ calls' = calls)
               => last'.res = PollError("Failed to cast vote")]_vars

\* the lookup of an option of the poll failed and the call reported an
\* invalid option
LookupFailureReportedAsInvalidOption ==
  /\ last.op = "castVote"
  /\ last.res = ValidationError("Invalid option for this poll")
  /\ \E o \in options : o.id = last.opt /\ o.poll_id = last.poll
  /\ faults < MaxFaults

SuggestionFailureGivesFallback ==
  (/\ last.op = "generatePollSuggestions"
   /\ \/ last.service.kind \in {"noKey", "error", "timeout"}
      \/ /\ last.service.kind = "text"
         /\ \/ ~last.service.json
            \/ ~last.service.fields
            \/ last.service.questionSuggestions = <<>>
            \/ last.service.optionSuggestions = <<>>)
    => last.res = Ok(fallbackResponse([question |-> last.question,
                                       options |-> last.options]))

\* C25, the part that holds: a missing API key, a response that is not JSON
\* or lacks the suggestions, and an error of the service whose message names
\* neither quota, billing, network nor timeout give the fallback response; an
\* error or timeout whose message names one of them is raised as an Error.
OtherSuggestionFailureGivesFallback ==
  (/\ last.op = "generatePollSuggestions"
   /\ \/ last.service.kind \in {"noKey", "error", "timeout"}
      \/ /\ last.service.kind = "text"
         /\ \/ ~last.service.json
            \/ ~last.service.fields
            \/ last.service.questionSuggestions = <<>>
            \/ last.service.optionSuggestions = <<>>)
    => IF /\ last.options # <<>>
          /\ \/ last.service.kind = "timeout"
             \/ /\ last.service.kind = "error"
                /\ Range(last.service.words)
                     \cap {"quota", "billing", "exceeded", "fetch failed", "network",
                           "timeout"} # {}
         THEN last.res.kind = "Error"
       ELSE last.res = Ok(fallbackResponse([question |-> last.question,
                                            options |-> last.options]))

\* no API key is configured and the form shows the fallback suggestions built
\* from its one non-blank option
FallbackShownWithoutKey ==
  /\ last.op = "generatePollSuggestions"
  /\ last.service.kind = "noKey"
  /\ last.options = << <<"A">> >>
  /\ form.error = ""
  /\ form.suggestions
       = << fallbackResponse([question |-> last.question, options |-> last.options]) >>

\* the service answered with a quota error and the form shows an error
QuotaErrorRaised ==
  /\ last.op = "generatePollSuggestions"
  /\ last.service = [kind |-> "error", words |-> <<"429", "quota", "exceeded">>]
  /\ last.options # <<>>
  /\ form.error = "AI service quota exceeded. Please try again later."
  /\ form.suggestions = <<>>

\* C26: one updatePollComplete call checks the ownership of the poll exactly
\* once, before any update of the poll or its options: the check made when
\* the call starts stays the only one.
OwnershipCheckedOnce ==
  /\ last.op = "updatePollComplete" => last.checks = 1
  /\ \A p \in Procs : call[p].op = "updatePollComplete" => call[p].checks = 1

\* C26, the part that holds: the first check precedes every update; the call
\* checks again when it enters updatePoll and, after the update of the poll,
\* when it enters updatePollOptions.
OwnershipCheckedBeforeEachUpdate ==
  /\ \A p \in Procs :
       call[p].op = "updatePollComplete" =>
         /\ pc[p] = "up_assert" => call[p].checks = 1
         /\ pc[p] \in {"up_write", "uo_assert"} => call[p].checks = 2
         /\ pc[p] \in {"uo_clear", "uo_insert"} => call[p].checks = 3
  /\ (last.op = "updatePollComplete" /\ last.res.kind = "ok")
       => last.checks = IF OptionsGiven(last) THEN 3 ELSE 2

\* an updatePollComplete with options returned after three ownership checks,
\* the third one made after the poll was updated
OwnershipCheckedThreeTimes ==
  /\ last.op = "updatePollComplete"
  /\ last.res.kind = "ok"
  /\ last.checks = 3
  /\ \E r \in polls : r.id = last.poll /\ r.question = Trim(last.question)

\* C27: no vote is recorded on a poll whose expiration time has passed: once
\* expires_at <= now, no step adds a vote row of the poll.
NoVoteAfterExpiry ==
  [][\A r \in polls :
       (r.expires_at # NoTime /\ r.expires_at <= now)
         => BagCardinality(VotesWhere(LAMBDA v : v.poll_id = r.id)')
              <= BagCardinality(VotesWhere(LAMBDA v : v.poll_id = r.id))]_vars

\* a castVote returned normally on a poll that had expired
VoteCastOnExpiredPoll ==
  /\ last.op = "castVote"
  /\ last.res.kind = "ok"
  /\ \E r \in polls : /\ r.id = last.poll
                      /\ r.expires_at # NoTime
                      /\ r.expires_at <= now
                      /\ r.created_at < now
  /\ \E v \in VoteRows : v.poll_id = last.poll

\* C28: after every action on the new-poll form (addOption, removeOption,
\* updateOption, applyOptionsSuggestion to append or to replace) the draft
\* option list has at least 2 entries, and removeOption on a list of 2
\* entries leaves it unchanged.
DraftKeepsTwoOptions ==
  [][/\ Len(form'.options) >= 2
     /\ (last'.op = "removeOption" /\ Len(form.options) = 2)
          => form'.options = form.options]_vars

\* C28, the part that holds: addOption, updateOption, removeOption and
\* applyOptionsSuggestion to append never shorten a list of 2 entries or
\* more to fewer than 2, and removeOption leaves a list of at most 2 entries
\* unchanged.
DraftEditsKeepTwoOptions ==
  [][(last'.op \in {"addOption", "updateOption", "removeOption",
                    "appendOptionsSuggestion"})
       => /\ Len(form.options) >= 2 => Len(form'.options) >= 2
          /\ (last'.op = "removeOption" /\ Len(form.options) <= 2)
               => form'.options = form.options]_vars

\* the fallback suggestion built from the one non-blank option of the form
\* replaced the draft list, which now has one entry
DraftReplacedByOneOption ==
  /\ last.op = "replaceOptionsSuggestion"
  /\ Len(last.options) = 1
  /\ form.options = last.options
  /\ form.suggestions = <<>>

\* C29: when updatePollOptions calls of the owner on one poll overlap, then
\* once the calls have finished the options of the poll are never empty,
\* never more than 20, and, when the call that finished last succeeded,
\* exactly the options it asked for: never a union or mixture of two requests.
OverlappingReplaceLeavesOneRequest ==
  (/\ \A p \in Procs : pc[p] = "idle"
   /\ last.op = "updatePollOptions"
   /\ last.session = last.user
   /\ \E r \in polls : r.id = last.poll /\ r.created_by = last.user)
    => LET labels == {o.label : o \in {x \in options : x.poll_id = last.poll}}
       IN /\ labels # {}
          /\ Cardinality(labels) <= OPTIONS_MAX_COUNT
          /\ last.res.kind = "ok" => labels = Range(ValidateOptions(last.options).val)

\* two updatePollOptions calls of the owner overlapped and the poll has the
\* options of both requests
OptionsOfTwoRequestsMixed ==
  /\ \A p \in Procs : pc[p] = "idle"
  /\ last.op = "updatePollOptions"
  /\ last.res.kind = "ok"
  /\ last.session = last.user
  /\ {o.label : o \in {x \in options : x.poll_id = last.poll}}
       = {<<"A">>, <<"B">>, <<"C">>, <<"D">>}

\* C29, the part that holds: once overlapping updatePollOptions calls of the
\* owner have finished, the poll is not left without options.
OverlappingReplaceLeavesOptions ==
  (/\ \A p \in Procs : pc[p] = "idle"
   /\ last.op = "updatePollOptions"
   /\ last.session = last.user
   /\ \E r \in polls : r.id = last.poll /\ r.created_by = last.user)
    => \E o \in options : o.poll_id = last.poll

\* C30: in every state in which no createPoll or updatePollOptions call (alone
\* or within updatePollComplete) is in progress, every stored poll has between
\* 2 and 20 options with pairwise distinct labels, also after a call failed
\* because the store rejected its insert of the options.
PollsKeepTwoToTwentyOptions ==
  (\A p \in Procs :
     call[p].op \notin {"createPoll", "updatePollOptions", "updatePollComplete"})
    => \A r \in polls :
         LET rows == {o \in options : o.poll_id = r.id}
         IN /\ Cardinality(rows) >= OPTIONS_MIN_COUNT
            /\ Cardinality(rows) <= OPTIONS_MAX_COUNT
            /\ Cardinality({o.label : o \in rows}) = Cardinality(rows)

\* C30, the part that holds: a stored poll never has more than 20 options or
\* two options with one label, and has fewer than 2 only when it has none.
PollsKeepDistinctOptions ==
  \A r \in polls :
    LET rows == {o \in options : o.poll_id = r.id}
    IN /\ Cardinality(rows) <= OPTIONS_MAX_COUNT
       /\ Cardinality({o.label : o \in rows}) = Cardinality(rows)
       /\ Cardinality(rows) # 1

\* createPoll failed at the insert of its options and the poll it had
\* inserted stays, without options
PollLeftWithoutOptions ==
  /\ \A p \in Procs : pc[p] = "idle"
  /\ last.op = "createPoll"
  /\ last.res.kind = "PollError"
  /\ \E r \in polls : ~\E o \in options : o.poll_id = r.id

====
